---- MODULE Spec2Model ----
\* kubelint: the rule dependency scheduler (ruleSorter), the evaluator
\* (Linter.lintResources / Linter.LintResource as driven by Linter.LintBytes)
\* and the fix applier (Linter.ApplyFixes).
EXTENDS Integers, Sequences, FiniteSets, TLC

\* ------------------------------------------------------------------ bounds
\* Number of rules registered on the Linter (their IDs are 1..NumRules).
NumRules == 3
\* Total number of prerequisite declarations over all registered rules.
MaxPrereqs == 3
\* Largest number of resources decoded from one input of LintBytes.
MaxResources == 2
\* Largest number of containers of a Deployment.
MaxContainers == 2

RuleIDs == 1..NumRules
\* A RuleID that no register of the Linter holds (a forgotten prerequisite).
Unregistered == NumRules + 1
IDs == RuleIDs \cup {Unregistered}
\* The two kinds of register the model distinguishes: rules applied to every
\* resource (Linter.genericRules) and rules applied to the collection as a
\* whole (Linter.interdependentRules).
Kinds == {"generic", "interdependent"}

\* The documents an input of LintBytes can hold, by what ReadBytes and
\* createRules make of them:
\*   "resource"    decodes to a kind createRules has a case for
\*   "unsupported" decodes to a kind createRules has no case for
\*   "unmarked"    decodes like "resource", written without the byte sequence
\*                 `apiVersion:` (JSON, or a quoted key)
\*   "unknown"     holds `apiVersion:` and does not decode (kind not in the scheme)
\*   "garbage"     does not decode and holds no `apiVersion:`
\*   "empty"       nothing but line breaks
DocKinds == {"resource", "unsupported", "unmarked", "unknown", "garbage", "empty"}

\* The two LintResource calls of a caller that lints two resources at once.
Goroutines == {"g1", "g2"}

VARIABLES
    Prereqs,        \* Rule.Prereqs of every registered rule, as a set of IDs
    kind,           \* the register every rule was added to
    hasCondition,   \* whether the rule was defined with a Condition
    hasFix,         \* whether the rule was defined with a Fix
    docs,           \* the documents of `data`, the input of LintBytes
    pc,             \* control position of the caller / Linter
    resources,      \* `resources` of LintBytes: the documents ReadBytes decoded
    errors,         \* `errors` of LintBytes
    lresources,     \* Linter.resources
    unit,           \* evaluation unit at hand: 0 = lintResources, i = i-th resource
    ruleSorter,     \* local ruleSorter of the unit being evaluated
    unitResults,    \* local `results` of lintResources / LintResource (empty outside the call)
    results,        \* `results` of LintBytes
    returned,       \* the Results the caller of LintBytes has received
    returnedErrors, \* the errors the caller of LintBytes has received
    fixes,          \* Linter.fixes
    sorterIdx,      \* position of ApplyFixes in Linter.fixes
    descriptions,   \* appliedFixDescriptions of ApplyFixes
    fixed,          \* the resources the caller of ApplyFixes has received
    condLog,        \* history: every invocation of a Condition, in order
    cascaded,       \* history: rules reported as dependents of a failed rule
    fixLog,         \* history: every invocation of a Fix, in order
    earlier,        \* history: what the earlier LintBytes / ApplyFixes round left
    gpc,            \* control position of every goroutine
    gLoaded,        \* the value of l.fixes every goroutine read for its append
    gRuleSorter,    \* local ruleSorter of every goroutine
    gFixSorter,     \* the fix graph every goroutine allocated
    gResults,       \* local `results` of every goroutine
    gFixes,         \* Linter.fixes as pointers: each graph named by its goroutine
    verdict,        \* `success` of every interdependentRule createRule has made
    userLog,        \* history: every invocation of an InterdependentRule's Condition
    sorters,        \* the `edges` map of every ruleSorter a caller of the sorter holds
    maps,           \* the inner maps of the `edges` maps, by address
    containers,     \* per container of the Deployment: whether it satisfies the Conditions
    bound,          \* per rule of ruleSorter.rules: the container its closures captured
    checked         \* history: the <<rule, container>> pairs whose Condition was invoked

\* The rule registers of the Linter.
registers == <<Prereqs, kind, hasCondition, hasFix>>

\* The state of the goroutines that call LintResource at the same time.
goroutines == <<gpc, gLoaded, gRuleSorter, gFixSorter, gResults, gFixes>>

\* The verdicts createRule stores in the rules of the collection.
stored == <<verdict, userLog>>

\* The ruleSorters of a caller that drives the sorter directly.
sorterState == <<sorters, maps>>

\* The containers of a Deployment and the rules materialised for them.
deployment == <<containers, bound, checked>>

\* The state of a caller that lints and fixes on one thread of control.
caller == <<pc, resources, errors, lresources, unit, ruleSorter, unitResults,
            results, returned, returnedErrors, fixes, sorterIdx, descriptions,
            fixed, condLog, cascaded, fixLog, earlier>>

vars == <<registers, docs, caller, goroutines, stored, sorterState, deployment>>

\* ------------------------------------------------------------ ruleSorter
\* A ruleSorter is a record [rules, edges]: rules maps the ID of every rule of
\* the unit to its Prereqs, edges maps every unresolved rule to the
\* prerequisites it still waits for.

Range(s) == {s[i] : i \in DOMAIN s}

\* The orders in which a `range` over a Go map can visit the keys S.
Orders(S) == {o \in [1..Cardinality(S) -> S] : \A i, j \in 1..Cardinality(S) : o[i] = o[j] => i = j}

newRuleSorter(rules) ==
    [rules |-> rules, edges |-> [id \in DOMAIN rules |-> rules[id]]]

\* clone that copies the rules and leaves every pending set empty.
cloneWithoutEdges(r) ==
    [rules |-> [id \in DOMAIN r.rules |-> r.rules[id]],
     edges |-> [id \in DOMAIN r.edges |-> {}]]

\* clone()
clone(r) ==
    [rules |-> [id \in DOMAIN r.rules |-> r.rules[id]],
     edges |-> [id \in DOMAIN r.edges |-> {incoming \in r.edges[id] : TRUE}]]

isEmpty(r) == DOMAIN r.edges = {}

\* The rules whose Prereqs name masterId.
directDependents(r, masterId) == {id \in DOMAIN r.rules : masterId \in r.rules[id]}

\* getDependents calls itself for every dependent it finds and keeps no
\* visited set: the recursion never returns when it meets a rule again on the
\* current call path.
RECURSIVE recursesForever(_, _, _)
recursesForever(r, masterId, path) ==
    \E id \in directDependents(r, masterId) :
        id \in path \/ recursesForever(r, id, path \cup {id})

getDependentsOverflows(r, masterId) == recursesForever(r, masterId, {masterId})

\* The rules for which a call of getDependents never returns.
overflowing(r) == {id \in DOMAIN r.rules : getDependentsOverflows(r, id)}

\* getDependents that collects the direct dependents and does not recurse.
getDependentsDirectOnly(r, masterId) == Orders(directDependents(r, masterId))

\* The slices getDependents can return (one for every iteration order of the
\* rules map, chosen anew in every call): each dependent followed by its own
\* dependents, once per prerequisite path.
RECURSIVE getDependents(_, _)
RECURSIVE appendDependents(_, _)
appendDependents(r, order) ==
    IF order = <<>> THEN {<<>>}
    ELSE {<<Head(order)>> \o own \o rest :
            own \in getDependents(r, Head(order)),
            rest \in appendDependents(r, Tail(order))}

getDependents(r, masterId) ==
    UNION {appendDependents(r, order) : order \in Orders(directDependents(r, masterId))}

\* The IDs getDependents returns, whatever the order.
dependentIDs(r, masterId) == UNION {Range(s) : s \in getDependents(r, masterId)}

\* popDependentRules that returns the dependents and forgets to delete them.
popDependentRulesKeepsKeys(r, dependents) == r

\* popDependentRules, given the slice getDependentRules returned.
popDependentRules(r, dependents) ==
    [r EXCEPT !.edges = [id \in DOMAIN r.edges \ Range(dependents) |-> r.edges[id]]]

\* remove that makes the dependents wait for all their other Prereqs again.
removeResetsDependents(r, id) ==
    LET dependents == dependentIDs(r, id)
    IN [r EXCEPT !.edges = [d \in DOMAIN r.edges \ {id} |->
            IF d \in dependents THEN r.rules[d] \ {id} ELSE r.edges[d]]]

\* remove that clears the dependents' edges and forgets the rule's own key.
removeKeepsKey(r, id) ==
    LET dependents == dependentIDs(r, id)
    IN [r EXCEPT !.edges = [d \in DOMAIN r.edges |->
            IF d \in dependents THEN r.edges[d] \ {id} ELSE r.edges[d]]]

\* remove(id)
remove(r, id) ==
    LET dependents == dependentIDs(r, id)
    IN [r EXCEPT !.edges = [d \in DOMAIN r.edges \ {id} |->
            IF d \in dependents THEN r.edges[d] \ {id} ELSE r.edges[d]]]

\* popNextAvailable that clears the dependents' edges and keeps the key.
popNextAvailableKeepsKey(r, ruleId) ==
    LET dependents == dependentIDs(r, ruleId)
    IN [r EXCEPT !.edges = [d \in DOMAIN r.edges |->
            IF d \in dependents THEN r.edges[d] \ {ruleId} ELSE r.edges[d]]]

\* popNextAvailable that deletes the key and leaves the dependents waiting.
popNextAvailableKeepsEdges(r, ruleId) ==
    [r EXCEPT !.edges = [d \in DOMAIN r.edges \ {ruleId} |-> r.edges[d]]]

\* A first loop of popNextAvailable that stops at any key, ready or not.
availableAnyKey(r) == DOMAIN r.edges

\* The rules the first loop of popNextAvailable can stop at.
available(r) == {id \in DOMAIN r.edges : r.edges[id] = {}}

\* popNextAvailable, given the rule its first loop stopped at.
popNextAvailable(r, ruleId) ==
    LET dependents == dependentIDs(r, ruleId)
    IN [r EXCEPT !.edges = [d \in DOMAIN r.edges \ {ruleId} |->
            IF d \in dependents THEN r.edges[d] \ {ruleId} ELSE r.edges[d]]]

\* ---------------------------------------------------------------- reader
\* Whether UniversalDeserializer.Decode, meta.TypeAccessor and the
\* metav1.Object conversion all succeed on the document.
decodes(d) == d \in {"resource", "unsupported", "unmarked"}

\* Whether the document holds the byte sequence `apiVersion:`.
hasSignifier(d) == d \in {"resource", "unsupported", "unknown"}

\* findLineNumbers: the length of the slice it returns, one entry for every
\* `apiVersion:` in the data.
findLineNumbers(data) == Cardinality({i \in DOMAIN data : hasSignifier(data[i])})

\* The loop of ReadBytes from segment i on, given the resources and errors
\* collected so far. A resource is named by the position of its document.
RECURSIVE readSegments(_, _, _)
readSegments(data, i, acc) ==
    IF i > Len(data) THEN acc
    ELSE LET found == IF data[i] = "empty"
                      THEN Append(acc.errors, [doc |-> i, err |-> "empty"])
                      ELSE acc.errors
         IN IF ~decodes(data[i])
            THEN readSegments(data, i + 1,
                    [acc EXCEPT !.errors = Append(found, [doc |-> i, err |-> "decode"])])
            ELSE IF Len(acc.resources) >= findLineNumbers(data)
            THEN [acc EXCEPT !.indexOutOfRange = TRUE]
            ELSE readSegments(data, i + 1, [acc EXCEPT !.resources = Append(@, i)])

\* ReadBytes: the resources and errors it returns, or the fact that its read of
\* lineNumber[currentObjNum] is out of range.
ReadBytes(data) ==
    readSegments(data, 1, [resources |-> <<>>, errors |-> <<>>, indexOutOfRange |-> FALSE])

\* ---------------------------------------------------------------- Linter
emptySorter == newRuleSorter(<<>>)

\* Number of resources of the batch LintBytes is linting.
nres == Len(resources)

\* createInterdependentRules: the rules of the interdependent register, ID -> Prereqs.
createInterdependentRules ==
    [id \in {i \in RuleIDs : kind[i] = "interdependent"} |-> Prereqs[id]]

\* createRules for a resource decoded from a document of kind d: the generic
\* rules, or nil (and an error) in the default case of the type switch.
createRulesFor(d) ==
    IF d = "unsupported" THEN <<>>
    ELSE [id \in {i \in RuleIDs : kind[i] = "generic"} |-> Prereqs[id]]

\* Whether createRules returns an error for the resource of unit u.
createRulesFails(u) == u > 0 /\ docs[resources[u]] = "unsupported"

\* createInterdependentRules / createRules: the rules of a unit, ID -> Prereqs.
createRules(u) ==
    IF u = 0 THEN createInterdependentRules ELSE createRulesFor(docs[resources[u]])

\* A Result, identified by the unit's resource(s) and the rule whose Message it carries.
Result(u, id) == [unit |-> u, rule |-> id]

RECURSIVE Results(_, _)
Results(u, ids) ==
    IF ids = <<>> THEN <<>> ELSE <<Result(u, Head(ids))>> \o Results(u, Tail(ids))

\* The prerequisite declarations a rule list can make: <<rule, prerequisite>>.
Declarations == RuleIDs \X IDs

\* The sets of at most n declarations.
RECURSIVE declarationSets(_)
declarationSets(n) ==
    IF n = 0 THEN {{}}
    ELSE LET smaller == declarationSets(n - 1)
         IN smaller \cup {D \cup {d} : D \in smaller, d \in Declarations}

\* The rule lists the model registers: every assignment of Prereqs to the
\* rules that makes at most MaxPrereqs declarations in all.
RuleSets ==
    {[id \in RuleIDs |-> {d[2] : d \in {x \in D : x[1] = id}}] : D \in declarationSets(MaxPrereqs)}

\* The inputs of at most MaxResources documents, each of a kind of K.
Inputs(K) == UNION {[1..n -> K] : n \in 1..MaxResources}

\* Number of fix graphs the earlier round registered in Linter.fixes.
fixBase == IF earlier = <<>> THEN 0 ELSE earlier[1].graphs

TypeOK ==
    /\ Prereqs \in [RuleIDs -> SUBSET IDs]
    /\ kind \in [RuleIDs -> Kinds \cup {"container"}]
    /\ hasCondition \in [RuleIDs -> BOOLEAN]
    /\ hasFix \in [RuleIDs -> BOOLEAN]
    /\ docs \in Inputs(DocKinds)
    /\ containers \in UNION {[1..k -> BOOLEAN] : k \in 0..MaxContainers}
    /\ checked \subseteq RuleIDs \X (1..MaxContainers)
    /\ pc \in {"ReadBytes", "LintBytes", "lint", "returned", "ApplyFixes", "applied",
               "panic", "overflow", "go", "newRuleSorter", "clone",
               "popNextAvailable", "popDependentRules", "remove"}
    /\ unit \in 0..nres
    /\ DOMAIN sorters \subseteq {"original", "clone"}
    /\ \A name \in DOMAIN sorters :
        /\ DOMAIN sorters[name] \subseteq RuleIDs
        /\ Range(sorters[name]) \subseteq DOMAIN maps
    /\ \A a \in DOMAIN maps : maps[a] \subseteq IDs

\* No goroutine has been started.
NoGoroutines ==
    /\ gpc = [g \in Goroutines |-> "idle"]
    /\ gLoaded = [g \in Goroutines |-> <<>>]
    /\ gRuleSorter = [g \in Goroutines |-> emptySorter]
    /\ gFixSorter = [g \in Goroutines |-> emptySorter]
    /\ gResults = [g \in Goroutines |-> <<>>]
    /\ gFixes = <<>>

\* A Linter on which nothing has been linted yet.
InitLinter ==
    /\ resources = <<>>
    /\ errors = <<>>
    /\ lresources = <<>>
    /\ unit = 0
    /\ ruleSorter = emptySorter
    /\ unitResults = <<>>
    /\ results = <<>>
    /\ returned = <<>>
    /\ returnedErrors = <<>>
    /\ fixes = <<>>
    /\ sorterIdx = 0
    /\ descriptions = <<>>
    /\ fixed = <<>>
    /\ condLog = <<>>
    /\ cascaded = {}
    /\ fixLog = <<>>
    /\ earlier = <<>>

\* No rule of the collection has been materialised by createRule.
NothingStored ==
    /\ verdict = <<>>
    /\ userLog = <<>>

\* No Deployment with V1ContainerRules is being linted.
NoDeployment ==
    /\ containers = <<>>
    /\ bound = <<>>
    /\ checked = {}

\* No caller holds a ruleSorter of its own.
NoSorters ==
    /\ sorters = <<>>
    /\ maps = <<>>

InitCommon ==
    /\ pc = "ReadBytes"
    /\ InitLinter
    /\ NoGoroutines
    /\ NothingStored
    /\ NoSorters
    /\ NoDeployment

\* One resource, rules in the generic register only, each with Condition and Fix.
Init ==
    /\ Prereqs \in RuleSets
    /\ kind = [i \in RuleIDs |-> "generic"]
    /\ hasCondition = [i \in RuleIDs |-> TRUE]
    /\ hasFix = [i \in RuleIDs |-> TRUE]
    /\ docs = <<"resource">>
    /\ InitCommon

\* LintBytes: ReadBytes returns, and the decoded resources are appended to
\* Linter.resources.
ReadBytesReturn ==
    /\ pc = "ReadBytes"
    /\ LET read == ReadBytes(docs)
       IN /\ ~read.indexOutOfRange
          /\ resources' = read.resources
          /\ errors' = read.errors
          /\ lresources' = lresources \o read.resources
    /\ pc' = "LintBytes"
    /\ UNCHANGED <<registers, docs, unit, ruleSorter, unitResults, results, returned,
                   returnedErrors, fixes, sorterIdx, descriptions, fixed, condLog,
                   cascaded, fixLog, earlier, goroutines, stored, sorterState, deployment>>

\* LintBytes: ReadBytes reads lineNumber[currentObjNum] past the end of the
\* slice findLineNumbers returned, and the runtime panics.
ReadBytesPanic ==
    /\ pc = "ReadBytes"
    /\ ReadBytes(docs).indexOutOfRange
    /\ pc' = "panic"
    /\ UNCHANGED <<registers, docs, resources, errors, lresources, unit, ruleSorter,
                   unitResults, results, returned, returnedErrors, fixes, sorterIdx,
                   descriptions, fixed, condLog, cascaded, fixLog, earlier, goroutines, stored, sorterState, deployment>>

\* LintBytes / lintResources / LintResource: entering a unit. The unit's rules
\* are materialised, sorted, and the clone is registered in Linter.fixes.
BeginUnit ==
    /\ pc = "LintBytes"
    /\ LET sorter == newRuleSorter(createRules(unit))
       IN /\ ruleSorter' = sorter
          /\ fixes' = Append(fixes, clone(sorter))
    /\ unitResults' = <<>>
    /\ pc' = "lint"
    /\ UNCHANGED <<registers, docs, resources, errors, lresources, unit, results,
                   returned, returnedErrors, sorterIdx, descriptions, fixed, condLog,
                   cascaded, fixLog, earlier, goroutines, stored, sorterState, deployment>>

\* One iteration of the evaluation loop in which popNextAvailable finds no
\* rule without incoming edges and panics.
LintPanic ==
    /\ pc = "lint"
    /\ ~isEmpty(ruleSorter)
    /\ available(ruleSorter) = {}
    /\ pc' = "panic"
    /\ UNCHANGED <<registers, docs, resources, errors, lresources, unit, ruleSorter,
                   unitResults, results, returned, returnedErrors, fixes, sorterIdx,
                   descriptions, fixed, condLog, cascaded, fixLog, earlier, goroutines, stored, sorterState, deployment>>

\* One iteration in which getDependents, called by popNextAvailable for the
\* rule it chose, recurses without end: the goroutine's stack overflows.
LintOverflow ==
    /\ pc = "lint"
    /\ \E ruleId \in available(ruleSorter) : ruleId \in overflowing(ruleSorter)
    /\ pc' = "overflow"
    /\ UNCHANGED <<registers, docs, resources, errors, lresources, unit, ruleSorter,
                   unitResults, results, returned, returnedErrors, fixes, sorterIdx,
                   descriptions, fixed, condLog, cascaded, fixLog, earlier, goroutines, stored, sorterState, deployment>>

\* One iteration in which the Condition of the popped rule returns true (as
\* that of a rule defined without a Condition always does).
LintPass ==
    /\ pc = "lint"
    /\ \E ruleId \in available(ruleSorter) :
        /\ ruleId \notin overflowing(ruleSorter)
        /\ ruleSorter' = popNextAvailable(ruleSorter, ruleId)
        /\ condLog' = Append(condLog, [unit |-> unit, rule |-> ruleId, ok |-> TRUE])
        /\ fixes' = [fixes EXCEPT ![Len(fixes)] = remove(fixes[Len(fixes)], ruleId)]
    /\ UNCHANGED <<registers, docs, pc, resources, errors, lresources, unit, unitResults,
                   results, returned, returnedErrors, sorterIdx, descriptions, fixed,
                   cascaded, fixLog, earlier, goroutines, stored, sorterState, deployment>>

\* An iteration for a Condition that returns false which reports the
\* dependents first and the rule itself after them.
LintFailReportsDependentsFirst ==
    /\ pc = "lint"
    /\ \E ruleId \in available(ruleSorter) :
        /\ ruleId \notin overflowing(ruleSorter)
        /\ hasCondition[ruleId]
        /\ LET popped == popNextAvailable(ruleSorter, ruleId)
           IN \E dependentRules \in getDependents(popped, ruleId) :
                /\ ruleSorter' = popDependentRules(popped, dependentRules)
                /\ unitResults' = unitResults \o dependentRules \o <<ruleId>>
                /\ cascaded' = cascaded \cup {Result(unit, d) : d \in Range(dependentRules)}
        /\ condLog' = Append(condLog, [unit |-> unit, rule |-> ruleId, ok |-> FALSE])
    /\ UNCHANGED <<registers, docs, pc, resources, errors, lresources, unit, results,
                   returned, returnedErrors, fixes, sorterIdx, descriptions, fixed,
                   fixLog, earlier, goroutines, stored, sorterState, deployment>>

\* An iteration for a Condition that returns false which takes the rule out
\* of the fix graph as if it had passed.
LintFailRemovesFromFixes ==
    /\ pc = "lint"
    /\ \E ruleId \in available(ruleSorter) :
        /\ ruleId \notin overflowing(ruleSorter)
        /\ hasCondition[ruleId]
        /\ LET popped == popNextAvailable(ruleSorter, ruleId)
           IN \E dependentRules \in getDependents(popped, ruleId) :
                /\ ruleSorter' = popDependentRules(popped, dependentRules)
                /\ unitResults' = unitResults \o <<ruleId>> \o dependentRules
                /\ cascaded' = cascaded \cup {Result(unit, d) : d \in Range(dependentRules)}
        /\ condLog' = Append(condLog, [unit |-> unit, rule |-> ruleId, ok |-> FALSE])
        /\ fixes' = [fixes EXCEPT ![Len(fixes)] = remove(fixes[Len(fixes)], ruleId)]
    /\ UNCHANGED <<registers, docs, pc, resources, errors, lresources, unit, results,
                   returned, returnedErrors, sorterIdx, descriptions, fixed,
                   fixLog, earlier, goroutines, stored, sorterState, deployment>>

\* An iteration in which the Condition returns false whether or not the rule
\* was defined with one.
LintFailWithoutCondition ==
    /\ pc = "lint"
    /\ \E ruleId \in available(ruleSorter) :
        /\ ruleId \notin overflowing(ruleSorter)
        /\ LET popped == popNextAvailable(ruleSorter, ruleId)
           IN \E dependentRules \in getDependents(popped, ruleId) :
                /\ ruleSorter' = popDependentRules(popped, dependentRules)
                /\ unitResults' = unitResults \o <<ruleId>> \o dependentRules
                /\ cascaded' = cascaded \cup {Result(unit, d) : d \in Range(dependentRules)}
        /\ condLog' = Append(condLog, [unit |-> unit, rule |-> ruleId, ok |-> FALSE])
    /\ UNCHANGED <<registers, docs, pc, resources, errors, lresources, unit, results,
                   returned, returnedErrors, fixes, sorterIdx, descriptions, fixed,
                   fixLog, earlier, goroutines, stored, sorterState, deployment>>

\* One iteration in which the Condition of the popped rule returns false.
LintFail ==
    /\ pc = "lint"
    /\ \E ruleId \in available(ruleSorter) :
        /\ ruleId \notin overflowing(ruleSorter)
        /\ hasCondition[ruleId]
        /\ LET popped == popNextAvailable(ruleSorter, ruleId)
           IN \E dependentRules \in getDependents(popped, ruleId) :
                /\ ruleSorter' = popDependentRules(popped, dependentRules)
                /\ unitResults' = unitResults \o <<ruleId>> \o dependentRules
                /\ cascaded' = cascaded \cup {Result(unit, d) : d \in Range(dependentRules)}
        /\ condLog' = Append(condLog, [unit |-> unit, rule |-> ruleId, ok |-> FALSE])
    /\ UNCHANGED <<registers, docs, pc, resources, errors, lresources, unit, results,
                   returned, returnedErrors, fixes, sorterIdx, descriptions, fixed,
                   fixLog, earlier, goroutines, stored, sorterState, deployment>>

\* An EndUnit that puts the Results of the unit in front of those of the
\* units before it.
EndUnitPrepends ==
    /\ pc = "lint"
    /\ isEmpty(ruleSorter)
    /\ results' = Results(unit, unitResults) \o results
    /\ errors' = IF createRulesFails(unit)
                 THEN Append(errors, [doc |-> resources[unit], err |-> "kind"])
                 ELSE errors
    /\ IF unit < nres
       THEN /\ unit' = unit + 1
            /\ pc' = "LintBytes"
            /\ UNCHANGED <<returned, returnedErrors>>
       ELSE /\ pc' = "returned"
            /\ returned' = results'
            /\ returnedErrors' = errors'
            /\ UNCHANGED unit
    /\ unitResults' = <<>>
    /\ UNCHANGED <<registers, docs, resources, lresources, ruleSorter, fixes, sorterIdx,
                   descriptions, fixed, condLog, cascaded, fixLog, earlier, goroutines, stored, sorterState, deployment>>

\* The loop of the unit ends: its results, and the error of createRules if
\* there was one, are appended to those of LintBytes, which goes on to the
\* next resource or returns.
EndUnit ==
    /\ pc = "lint"
    /\ isEmpty(ruleSorter)
    /\ results' = results \o Results(unit, unitResults)
    /\ errors' = IF createRulesFails(unit)
                 THEN Append(errors, [doc |-> resources[unit], err |-> "kind"])
                 ELSE errors
    /\ IF unit < nres
       THEN /\ unit' = unit + 1
            /\ pc' = "LintBytes"
            /\ UNCHANGED <<returned, returnedErrors>>
       ELSE /\ pc' = "returned"
            /\ returned' = results'
            /\ returnedErrors' = errors'
            /\ UNCHANGED unit
    /\ unitResults' = <<>>
    /\ UNCHANGED <<registers, docs, resources, lresources, ruleSorter, fixes, sorterIdx,
                   descriptions, fixed, condLog, cascaded, fixLog, earlier, goroutines, stored, sorterState, deployment>>

\* The caller goes on to ApplyFixes once LintBytes has returned.
ApplyFixes ==
    /\ pc = "returned"
    /\ pc' = "ApplyFixes"
    /\ sorterIdx' = 1
    /\ descriptions' = <<>>
    /\ UNCHANGED <<registers, docs, resources, errors, lresources, unit, ruleSorter,
                   unitResults, results, returned, returnedErrors, fixes, fixed,
                   condLog, cascaded, fixLog, earlier, goroutines, stored, sorterState, deployment>>

\* An inner loop of ApplyFixes that may end while the sorter still has rules.
FixNextSorterLeavesRules ==
    /\ pc = "ApplyFixes"
    /\ sorterIdx <= Len(fixes)
    /\ sorterIdx' = sorterIdx + 1
    /\ UNCHANGED <<registers, docs, pc, resources, errors, lresources, unit, ruleSorter,
                   unitResults, results, returned, returnedErrors, fixes, descriptions,
                   fixed, condLog, cascaded, fixLog, earlier, goroutines, stored, sorterState, deployment>>

\* The inner loop of ApplyFixes ends for the sorter at hand.
FixNextSorter ==
    /\ pc = "ApplyFixes"
    /\ sorterIdx <= Len(fixes)
    /\ isEmpty(fixes[sorterIdx])
    /\ sorterIdx' = sorterIdx + 1
    /\ UNCHANGED <<registers, docs, pc, resources, errors, lresources, unit, ruleSorter,
                   unitResults, results, returned, returnedErrors, fixes, descriptions,
                   fixed, condLog, cascaded, fixLog, earlier, goroutines, stored, sorterState, deployment>>

\* One iteration of the inner loop in which popNextAvailable panics.
FixPanic ==
    /\ pc = "ApplyFixes"
    /\ sorterIdx <= Len(fixes)
    /\ ~isEmpty(fixes[sorterIdx])
    /\ available(fixes[sorterIdx]) = {}
    /\ pc' = "panic"
    /\ UNCHANGED <<registers, docs, resources, errors, lresources, unit, ruleSorter,
                   unitResults, results, returned, returnedErrors, fixes, sorterIdx,
                   descriptions, fixed, condLog, cascaded, fixLog, earlier, goroutines, stored, sorterState, deployment>>

\* An iteration in which a popped rule defined without a Fix counts as fixed.
FixSucceedWithoutFix ==
    /\ pc = "ApplyFixes"
    /\ sorterIdx <= Len(fixes)
    /\ \E ruleId \in available(fixes[sorterIdx]) :
        /\ ruleId \notin overflowing(fixes[sorterIdx])
        /\ fixes' = [fixes EXCEPT ![sorterIdx] = popNextAvailable(@, ruleId)]
        /\ fixLog' = Append(fixLog, [unit |-> sorterIdx - fixBase - 1, rule |-> ruleId, ok |-> TRUE])
        /\ descriptions' = Append(descriptions, Result(sorterIdx - fixBase - 1, ruleId))
    /\ UNCHANGED <<registers, docs, pc, resources, errors, lresources, unit, ruleSorter,
                   unitResults, results, returned, returnedErrors, sorterIdx, fixed,
                   condLog, cascaded, earlier, goroutines, stored, sorterState, deployment>>

\* One iteration in which the Fix of the popped rule returns true.
\* (No rule of a registered fix graph makes getDependents overflow once
\* LintBytes has returned: FixGraphsNeverOverflow.)
FixSucceed ==
    /\ pc = "ApplyFixes"
    /\ sorterIdx <= Len(fixes)
    /\ \E ruleId \in available(fixes[sorterIdx]) :
        /\ ruleId \notin overflowing(fixes[sorterIdx])
        /\ hasFix[ruleId]
        /\ fixes' = [fixes EXCEPT ![sorterIdx] = popNextAvailable(@, ruleId)]
        /\ fixLog' = Append(fixLog, [unit |-> sorterIdx - fixBase - 1, rule |-> ruleId, ok |-> TRUE])
        /\ descriptions' = Append(descriptions, Result(sorterIdx - fixBase - 1, ruleId))
    /\ UNCHANGED <<registers, docs, pc, resources, errors, lresources, unit, ruleSorter,
                   unitResults, results, returned, returnedErrors, sorterIdx, fixed,
                   condLog, cascaded, earlier, goroutines, stored, sorterState, deployment>>

\* An iteration for a Fix that returns false which appends the rule's
\* FixDescription all the same.
FixFailDescribes ==
    /\ pc = "ApplyFixes"
    /\ sorterIdx <= Len(fixes)
    /\ \E ruleId \in available(fixes[sorterIdx]) :
        /\ ruleId \notin overflowing(fixes[sorterIdx])
        /\ LET popped == popNextAvailable(fixes[sorterIdx], ruleId)
           IN \E dependentRules \in getDependents(popped, ruleId) :
                fixes' = [fixes EXCEPT ![sorterIdx] = popDependentRules(popped, dependentRules)]
        /\ fixLog' = Append(fixLog, [unit |-> sorterIdx - fixBase - 1, rule |-> ruleId, ok |-> FALSE])
        /\ descriptions' = Append(descriptions, Result(sorterIdx - fixBase - 1, ruleId))
    /\ UNCHANGED <<registers, docs, pc, resources, errors, lresources, unit, ruleSorter,
                   unitResults, results, returned, returnedErrors, sorterIdx, fixed,
                   condLog, cascaded, earlier, goroutines, stored, sorterState, deployment>>

\* One iteration in which the Fix of the popped rule returns false (as that
\* of a rule defined without a Fix always does).
FixFail ==
    /\ pc = "ApplyFixes"
    /\ sorterIdx <= Len(fixes)
    /\ \E ruleId \in available(fixes[sorterIdx]) :
        /\ ruleId \notin overflowing(fixes[sorterIdx])
        /\ LET popped == popNextAvailable(fixes[sorterIdx], ruleId)
           IN \E dependentRules \in getDependents(popped, ruleId) :
                fixes' = [fixes EXCEPT ![sorterIdx] = popDependentRules(popped, dependentRules)]
        /\ fixLog' = Append(fixLog, [unit |-> sorterIdx - fixBase - 1, rule |-> ruleId, ok |-> FALSE])
    /\ UNCHANGED <<registers, docs, pc, resources, errors, lresources, unit, ruleSorter,
                   unitResults, results, returned, returnedErrors, sorterIdx,
                   descriptions, fixed, condLog, cascaded, earlier, goroutines, stored, sorterState, deployment>>

\* ApplyFixes returns l.resources and the descriptions.
ApplyFixesReturn ==
    /\ pc = "ApplyFixes"
    /\ sorterIdx > Len(fixes)
    /\ pc' = "applied"
    /\ fixed' = lresources
    /\ UNCHANGED <<registers, docs, resources, errors, lresources, unit, ruleSorter,
                   unitResults, results, returned, returnedErrors, fixes, sorterIdx,
                   descriptions, condLog, cascaded, fixLog, earlier, goroutines, stored, sorterState, deployment>>

Next ==
    \/ ReadBytesReturn
    \/ BeginUnit
    \/ LintPanic
    \/ LintOverflow
    \/ LintPass
    \/ LintFail
    \/ EndUnit
    \/ ApplyFixes
    \/ FixNextSorter
    \/ FixPanic
    \/ FixSucceed
    \/ FixFail
    \/ ApplyFixesReturn

Spec == Init /\ [][Next]_vars

\* LintBytes over an input of one or more resources, rules in both registers.
InitLint ==
    /\ Prereqs \in RuleSets
    /\ kind \in [RuleIDs -> Kinds]
    /\ hasCondition = [i \in RuleIDs |-> TRUE]
    /\ hasFix = [i \in RuleIDs |-> TRUE]
    /\ docs \in Inputs({"resource"})
    /\ InitCommon

SpecLint == InitLint /\ [][Next]_vars

\* LintBytes and ApplyFixes run on one goroutine, which takes its next step
\* whenever it has one.
SpecFair == Spec /\ WF_vars(Next)

\* LintBytes over an input of documents of every kind, generic rules only.
InitRead ==
    /\ Prereqs \in RuleSets
    /\ kind = [i \in RuleIDs |-> "generic"]
    /\ hasCondition = [i \in RuleIDs |-> TRUE]
    /\ hasFix = [i \in RuleIDs |-> TRUE]
    /\ docs \in Inputs(DocKinds)
    /\ InitCommon

NextRead == Next \/ ReadBytesPanic

SpecRead == InitRead /\ [][NextRead]_vars

\* One resource, generic rules only, any of them defined without a Condition.
InitNil ==
    /\ Prereqs \in RuleSets
    /\ kind = [i \in RuleIDs |-> "generic"]
    /\ hasCondition \in [RuleIDs -> BOOLEAN]
    /\ hasFix = [i \in RuleIDs |-> TRUE]
    /\ docs = <<"resource">>
    /\ InitCommon

SpecNil == InitNil /\ [][Next]_vars

\* One document that decodes to a supported resource, linted with generic
\* rules any of which may have been defined without a Fix.
InitNoFix ==
    /\ Prereqs \in RuleSets
    /\ kind = [i \in RuleIDs |-> "generic"]
    /\ hasCondition = [i \in RuleIDs |-> TRUE]
    /\ hasFix \in [RuleIDs -> BOOLEAN]
    /\ docs = <<"resource">>
    /\ InitCommon

SpecNoFix == InitNoFix /\ [][Next]_vars

\* The caller calls LintBytes again, on the same Linter and for the same
\* documents, once ApplyFixes has returned. Linter.fixes and Linter.resources
\* stay as the first round left them.
LintAgain ==
    /\ pc = "applied"
    /\ earlier = <<>>
    /\ earlier' = <<[graphs |-> Len(fixes),
                     fixed  |-> {Result(e.unit, e.rule) : e \in {x \in Range(fixLog) : x.ok}},
                     passed |-> {Result(e.unit, e.rule) : e \in {x \in Range(condLog) : x.ok}}]>>
    /\ pc' = "ReadBytes"
    /\ resources' = <<>>
    /\ errors' = <<>>
    /\ unit' = 0
    /\ results' = <<>>
    /\ returned' = <<>>
    /\ returnedErrors' = <<>>
    /\ sorterIdx' = 0
    /\ descriptions' = <<>>
    /\ fixed' = <<>>
    /\ condLog' = <<>>
    /\ cascaded' = {}
    /\ fixLog' = <<>>
    /\ UNCHANGED <<registers, docs, lresources, ruleSorter, unitResults, fixes, goroutines, stored, sorterState, deployment>>

NextAgain == Next \/ LintAgain

\* Lint, fix, and lint again: one resource, generic rules only.
SpecAgain == Init /\ [][NextAgain]_vars

\* The caller calls ApplyFixes again once ApplyFixes has returned, without a
\* Lint call in between: Linter.fixes holds the graphs the first call
\* drained, and appliedFixDescriptions starts empty.
ApplyFixesAgain ==
    /\ pc = "applied"
    /\ earlier = <<>>
    /\ earlier' = <<[graphs |-> 0,
                     fixed  |-> {Result(e.unit, e.rule) : e \in {x \in Range(fixLog) : x.ok}},
                     passed |-> {Result(e.unit, e.rule) : e \in {x \in Range(condLog) : x.ok}}]>>
    /\ pc' = "ApplyFixes"
    /\ sorterIdx' = 1
    /\ descriptions' = <<>>
    /\ fixed' = <<>>
    /\ fixLog' = <<>>
    /\ UNCHANGED <<registers, docs, resources, errors, lresources, unit, ruleSorter,
                   unitResults, results, returned, returnedErrors, fixes, condLog,
                   cascaded, goroutines, stored, sorterState, deployment>>

NextFixAgain == Next \/ ApplyFixesAgain

\* The caller calls LintBytes again, on the same Linter and for the same
\* documents, as soon as LintBytes has returned: Linter.fixes keeps the
\* graphs of the first call, which no ApplyFixes has drained.
LintTwice ==
    /\ pc = "returned"
    /\ earlier = <<>>
    /\ earlier' = <<[graphs |-> Len(fixes),
                     fixed  |-> {},
                     passed |-> {Result(e.unit, e.rule) : e \in {x \in Range(condLog) : x.ok}}]>>
    /\ pc' = "ReadBytes"
    /\ resources' = <<>>
    /\ errors' = <<>>
    /\ unit' = 0
    /\ results' = <<>>
    /\ returned' = <<>>
    /\ returnedErrors' = <<>>
    /\ condLog' = <<>>
    /\ cascaded' = {}
    /\ UNCHANGED <<registers, docs, lresources, ruleSorter, unitResults, fixes, sorterIdx,
                   descriptions, fixed, fixLog, goroutines, stored, sorterState, deployment>>

NextTwice == Next \/ LintTwice

\* Rules in both registers, one document per call of LintBytes.
InitTwice ==
    /\ Prereqs \in RuleSets
    /\ kind \in [RuleIDs -> Kinds]
    /\ hasCondition = [i \in RuleIDs |-> TRUE]
    /\ hasFix = [i \in RuleIDs |-> TRUE]
    /\ docs = <<"resource">>
    /\ InitCommon

SpecTwice == InitTwice /\ [][NextTwice]_vars

\* Lint, fix, and fix again: one resource, generic rules only.
SpecFixAgain == Init /\ [][NextFixAgain]_vars

\* ------------------------------------------------------------ goroutines
\* Two goroutines call LintResource on the same Linter, each for its own
\* resource. A panic or a stack overflow in either ends the process.
crashed == \E g \in Goroutines : gpc[g] \in {"panic", "overflow"}

\* LintResource up to the read of l.fixes in `l.fixes = append(l.fixes,
\* fixSorter)`: the rules are materialised and sorted, the clone is made.
GoLoadFixes(g) ==
    /\ gpc[g] = "start" /\ ~crashed
    /\ LET sorter == newRuleSorter(createRulesFor("resource"))
       IN /\ gRuleSorter' = [gRuleSorter EXCEPT ![g] = sorter]
          /\ gFixSorter' = [gFixSorter EXCEPT ![g] = clone(sorter)]
    /\ gLoaded' = [gLoaded EXCEPT ![g] = gFixes]
    /\ gpc' = [gpc EXCEPT ![g] = "store"]
    /\ UNCHANGED <<registers, docs, caller, stored, sorterState, gResults, gFixes, deployment>>

\* The write of l.fixes in `l.fixes = append(l.fixes, fixSorter)`: nothing
\* orders it with the other goroutine's read and write of the field.
GoStoreFixes(g) ==
    /\ gpc[g] = "store" /\ ~crashed
    /\ gFixes' = Append(gLoaded[g], g)
    /\ gpc' = [gpc EXCEPT ![g] = "lint"]
    /\ UNCHANGED <<registers, docs, caller, stored, sorterState, gLoaded, gRuleSorter, gFixSorter, gResults, deployment>>

\* An iteration of a goroutine's loop in which popNextAvailable panics.
GoPanic(g) ==
    /\ gpc[g] = "lint" /\ ~crashed
    /\ ~isEmpty(gRuleSorter[g])
    /\ available(gRuleSorter[g]) = {}
    /\ gpc' = [gpc EXCEPT ![g] = "panic"]
    /\ UNCHANGED <<registers, docs, caller, stored, sorterState, gLoaded, gRuleSorter, gFixSorter, gResults, gFixes, deployment>>

\* An iteration of a goroutine's loop in which getDependents recurses without end.
GoOverflow(g) ==
    /\ gpc[g] = "lint" /\ ~crashed
    /\ \E ruleId \in available(gRuleSorter[g]) : ruleId \in overflowing(gRuleSorter[g])
    /\ gpc' = [gpc EXCEPT ![g] = "overflow"]
    /\ UNCHANGED <<registers, docs, caller, stored, sorterState, gLoaded, gRuleSorter, gFixSorter, gResults, gFixes, deployment>>

\* An iteration of a goroutine's loop in which the Condition returns true.
GoPass(g) ==
    /\ gpc[g] = "lint" /\ ~crashed
    /\ \E ruleId \in available(gRuleSorter[g]) :
        /\ ruleId \notin overflowing(gRuleSorter[g])
        /\ gRuleSorter' = [gRuleSorter EXCEPT ![g] = popNextAvailable(@, ruleId)]
        /\ gFixSorter' = [gFixSorter EXCEPT ![g] = remove(@, ruleId)]
    /\ UNCHANGED <<registers, docs, caller, stored, sorterState, gpc, gLoaded, gResults, gFixes, deployment>>

\* An iteration of a goroutine's loop in which the Condition returns false.
GoFail(g) ==
    /\ gpc[g] = "lint" /\ ~crashed
    /\ \E ruleId \in available(gRuleSorter[g]) :
        /\ ruleId \notin overflowing(gRuleSorter[g])
        /\ hasCondition[ruleId]
        /\ LET popped == popNextAvailable(gRuleSorter[g], ruleId)
           IN \E dependentRules \in getDependents(popped, ruleId) :
                /\ gRuleSorter' = [gRuleSorter EXCEPT ![g] = popDependentRules(popped, dependentRules)]
                /\ gResults' = [gResults EXCEPT ![g] = @ \o <<ruleId>> \o dependentRules]
    /\ UNCHANGED <<registers, docs, caller, stored, sorterState, gpc, gLoaded, gFixSorter, gFixes, deployment>>

\* The loop of a goroutine ends and its LintResource returns.
GoReturn(g) ==
    /\ gpc[g] = "lint" /\ ~crashed
    /\ isEmpty(gRuleSorter[g])
    /\ gpc' = [gpc EXCEPT ![g] = "done"]
    /\ UNCHANGED <<registers, docs, caller, stored, sorterState, gLoaded, gRuleSorter, gFixSorter, gResults, gFixes, deployment>>

\* Two resources read beforehand, generic rules only, and a goroutine started
\* for each resource.
InitGo ==
    /\ Prereqs \in RuleSets
    /\ kind = [i \in RuleIDs |-> "generic"]
    /\ hasCondition = [i \in RuleIDs |-> TRUE]
    /\ hasFix = [i \in RuleIDs |-> TRUE]
    /\ docs = <<"resource", "resource">>
    /\ pc = "go"
    /\ InitLinter
    /\ gpc = [g \in Goroutines |-> "start"]
    /\ gLoaded = [g \in Goroutines |-> <<>>]
    /\ gRuleSorter = [g \in Goroutines |-> emptySorter]
    /\ gFixSorter = [g \in Goroutines |-> emptySorter]
    /\ gResults = [g \in Goroutines |-> <<>>]
    /\ gFixes = <<>>
    /\ NothingStored
    /\ NoSorters
    /\ NoDeployment

NextGo ==
    \E g \in Goroutines :
        \/ GoLoadFixes(g)
        \/ GoStoreFixes(g)
        \/ GoPanic(g)
        \/ GoOverflow(g)
        \/ GoPass(g)
        \/ GoFail(g)
        \/ GoReturn(g)

SpecGo == InitGo /\ [][NextGo]_vars

\* No rule of a fix graph that ApplyFixes drains makes getDependents overflow.
FixGraphsNeverOverflow ==
    pc = "ApplyFixes" =>
        \A i \in 1..Len(fixes) : available(fixes[i]) \cap overflowing(fixes[i]) = {}

\* ------------------------------------- interdependent rules that store a verdict
\* InterdependentRule.createRule, which has no Prereqs to hand on, calls the
\* user's Condition over the whole collection when it materialises the rule
\* and hands the scheduler a Condition that returns the verdict it stored.
interdependentIDs == {i \in RuleIDs : kind[i] = "interdependent"}

\* The order in which the register of interdependent rules is walked.
RECURSIVE registerOrder(_)
registerOrder(S) ==
    IF S = {} THEN <<>>
    ELSE LET first == CHOOSE i \in S : \A j \in S : i <= j
         IN <<first>> \o registerOrder(S \ {first})

\* One invocation of the user's Condition of a rule, and how many rules the
\* scheduler had popped by then.
Invocation(id) == [rule |-> id, popped |-> Len(condLog)]

\* lintResources enters the unit of the collection: createRule is called for
\* every interdependent rule and invokes its Condition, then the rules are
\* sorted and the clone is registered in Linter.fixes.
Materialize ==
    /\ pc = "LintBytes"
    /\ unit = 0
    /\ \A id \in interdependentIDs : hasCondition[id]
    /\ verdict' \in [interdependentIDs -> BOOLEAN]
    /\ userLog' = userLog \o [i \in 1..Cardinality(interdependentIDs) |->
                                Invocation(registerOrder(interdependentIDs)[i])]
    /\ LET sorter == newRuleSorter(createRules(unit))
       IN /\ ruleSorter' = sorter
          /\ fixes' = Append(fixes, clone(sorter))
    /\ unitResults' = <<>>
    /\ pc' = "lint"
    /\ UNCHANGED <<registers, docs, resources, errors, lresources, unit, results,
                   returned, returnedErrors, sorterIdx, descriptions, fixed, condLog,
                   cascaded, fixLog, earlier, goroutines, sorterState, deployment>>

\* createRule calls the Condition of a rule defined without one: a call of a
\* nil func, which panics.
MaterializePanic ==
    /\ pc = "LintBytes"
    /\ unit = 0
    /\ \E id \in interdependentIDs : ~hasCondition[id]
    /\ pc' = "panic"
    /\ UNCHANGED <<registers, docs, resources, errors, lresources, unit, ruleSorter,
                   unitResults, results, returned, returnedErrors, fixes, sorterIdx,
                   descriptions, fixed, condLog, cascaded, fixLog, earlier, goroutines,
                   stored, sorterState, deployment>>

\* An iteration for a popped interdependent rule whose Condition calls the
\* user's Condition again and returns what that call returns.
StoredPassCallsCondition ==
    /\ pc = "lint"
    /\ unit = 0
    /\ \E ruleId \in available(ruleSorter) :
        /\ ruleSorter' = popNextAvailable(ruleSorter, ruleId)
        /\ condLog' = Append(condLog, [unit |-> unit, rule |-> ruleId, ok |-> TRUE])
        /\ fixes' = [fixes EXCEPT ![Len(fixes)] = remove(fixes[Len(fixes)], ruleId)]
        /\ userLog' = Append(userLog, Invocation(ruleId))
    /\ UNCHANGED <<registers, docs, pc, resources, errors, lresources, unit, unitResults,
                   results, returned, returnedErrors, sorterIdx, descriptions, fixed,
                   cascaded, fixLog, earlier, goroutines, verdict, sorterState, deployment>>

\* One iteration in which the Condition of the popped interdependent rule
\* returns the stored verdict, true.
StoredPass ==
    /\ pc = "lint"
    /\ unit = 0
    /\ \E ruleId \in available(ruleSorter) :
        /\ verdict[ruleId]
        /\ ruleSorter' = popNextAvailable(ruleSorter, ruleId)
        /\ condLog' = Append(condLog, [unit |-> unit, rule |-> ruleId, ok |-> TRUE])
        /\ fixes' = [fixes EXCEPT ![Len(fixes)] = remove(fixes[Len(fixes)], ruleId)]
    /\ UNCHANGED <<registers, docs, pc, resources, errors, lresources, unit, unitResults,
                   results, returned, returnedErrors, sorterIdx, descriptions, fixed,
                   cascaded, fixLog, earlier, goroutines, stored, sorterState, deployment>>

\* One iteration in which the Condition of the popped interdependent rule
\* returns the stored verdict, false.
StoredFail ==
    /\ pc = "lint"
    /\ unit = 0
    /\ \E ruleId \in available(ruleSorter) :
        /\ ~verdict[ruleId]
        /\ LET popped == popNextAvailable(ruleSorter, ruleId)
           IN \E dependentRules \in getDependents(popped, ruleId) :
                /\ ruleSorter' = popDependentRules(popped, dependentRules)
                /\ unitResults' = unitResults \o <<ruleId>> \o dependentRules
                /\ cascaded' = cascaded \cup {Result(unit, d) : d \in Range(dependentRules)}
        /\ condLog' = Append(condLog, [unit |-> unit, rule |-> ruleId, ok |-> FALSE])
    /\ UNCHANGED <<registers, docs, pc, resources, errors, lresources, unit, results,
                   returned, returnedErrors, fixes, sorterIdx, descriptions, fixed,
                   fixLog, earlier, goroutines, stored, sorterState, deployment>>

\* The evaluation of one resource with the generic rules.
LintResource ==
    /\ unit > 0
    /\ (BeginUnit \/ LintPanic \/ LintOverflow \/ LintPass \/ LintFail)

\* Rules in both registers, those of the interdependent register without
\* Prereqs and any of them without a Condition; one resource.
InitEager ==
    /\ Prereqs \in RuleSets
    /\ kind \in [RuleIDs -> Kinds]
    /\ \A id \in RuleIDs : kind[id] = "interdependent" => Prereqs[id] = {}
    /\ hasCondition \in [RuleIDs -> BOOLEAN]
    /\ \A id \in RuleIDs : kind[id] = "generic" => hasCondition[id]
    /\ hasFix = [i \in RuleIDs |-> TRUE]
    /\ docs = <<"resource">>
    /\ InitCommon

NextEager ==
    \/ ReadBytesReturn
    \/ Materialize
    \/ MaterializePanic
    \/ StoredPass
    \/ StoredFail
    \/ LintResource
    \/ EndUnit
    \/ ApplyFixes
    \/ FixNextSorter
    \/ FixPanic
    \/ FixSucceed
    \/ FixFail
    \/ ApplyFixesReturn

SpecEager == InitEager /\ [][NextEager]_vars

\* --------------------------------------- V1ContainerRules on a Deployment
\* createRules materialises every V1ContainerRule once per container of the
\* Deployment; the closures of each materialised rule capture its container.
containerRuleIDs == {i \in RuleIDs : kind[i] = "container"}

\* The slice createRules returns: for every rule of the register, in the
\* order of the register, one rule per container, in the order of the
\* containers.
createContainerRules ==
    LET order == registerOrder(containerRuleIDs)
        k == Len(containers)
    IN [n \in 1..(Len(order) * k) |->
            [ID |-> order[((n - 1) \div k) + 1], container |-> ((n - 1) % k) + 1]]

\* newRuleSorter over that slice: `r[rule.ID] = rule` keeps, for every ID,
\* the rule that comes last in the slice.
lastWithID(rules, id) ==
    CHOOSE n \in DOMAIN rules :
        /\ rules[n].ID = id
        /\ \A m \in DOMAIN rules : rules[m].ID = id => m <= n

sortedContainerRules(rules) ==
    [id \in {rules[n].ID : n \in DOMAIN rules} |-> rules[lastWithID(rules, id)].container]

\* LintResource enters the unit of the Deployment.
BeginDeployment ==
    /\ pc = "LintBytes"
    /\ unit > 0
    /\ LET rules == createContainerRules
           sorter == newRuleSorter([id \in {rules[n].ID : n \in DOMAIN rules} |-> Prereqs[id]])
       IN /\ ruleSorter' = sorter
          /\ fixes' = Append(fixes, clone(sorter))
          /\ bound' = sortedContainerRules(rules)
    /\ unitResults' = <<>>
    /\ pc' = "lint"
    /\ UNCHANGED <<registers, docs, resources, errors, lresources, unit, results,
                   returned, returnedErrors, sorterIdx, descriptions, fixed, condLog,
                   cascaded, fixLog, earlier, goroutines, stored, sorterState,
                   containers, checked>>

\* One iteration in which the Condition of the popped rule finds that its
\* container satisfies it.
ContainerPass ==
    /\ pc = "lint"
    /\ unit > 0
    /\ \E ruleId \in available(ruleSorter) :
        /\ ruleId \notin overflowing(ruleSorter)
        /\ containers[bound[ruleId]]
        /\ ruleSorter' = popNextAvailable(ruleSorter, ruleId)
        /\ condLog' = Append(condLog, [unit |-> unit, rule |-> ruleId, ok |-> TRUE])
        /\ checked' = checked \cup {<<ruleId, bound[ruleId]>>}
        /\ fixes' = [fixes EXCEPT ![Len(fixes)] = remove(fixes[Len(fixes)], ruleId)]
    /\ UNCHANGED <<registers, docs, pc, resources, errors, lresources, unit, unitResults,
                   results, returned, returnedErrors, sorterIdx, descriptions, fixed,
                   cascaded, fixLog, earlier, goroutines, stored, sorterState,
                   containers, bound>>

\* One iteration in which the Condition of the popped rule finds that its
\* container violates it.
ContainerFail ==
    /\ pc = "lint"
    /\ unit > 0
    /\ \E ruleId \in available(ruleSorter) :
        /\ ruleId \notin overflowing(ruleSorter)
        /\ ~containers[bound[ruleId]]
        /\ LET popped == popNextAvailable(ruleSorter, ruleId)
           IN \E dependentRules \in getDependents(popped, ruleId) :
                /\ ruleSorter' = popDependentRules(popped, dependentRules)
                /\ unitResults' = unitResults \o <<ruleId>> \o dependentRules
                /\ cascaded' = cascaded \cup {Result(unit, d) : d \in Range(dependentRules)}
        /\ condLog' = Append(condLog, [unit |-> unit, rule |-> ruleId, ok |-> FALSE])
        /\ checked' = checked \cup {<<ruleId, bound[ruleId]>>}
    /\ UNCHANGED <<registers, docs, pc, resources, errors, lresources, unit, results,
                   returned, returnedErrors, fixes, sorterIdx, descriptions, fixed,
                   fixLog, earlier, goroutines, stored, sorterState, containers, bound>>

\* lintResources on a Linter without interdependent rules.
LintNoResources ==
    /\ unit = 0
    /\ BeginUnit

\* One document that decodes to a Deployment with one or more containers,
\* each of which satisfies or violates the Conditions of the rules; every
\* rule is a V1ContainerRule.
InitContainers ==
    /\ Prereqs \in RuleSets
    /\ kind = [i \in RuleIDs |-> "container"]
    /\ hasCondition = [i \in RuleIDs |-> TRUE]
    /\ hasFix = [i \in RuleIDs |-> TRUE]
    /\ docs = <<"resource">>
    /\ pc = "ReadBytes"
    /\ InitLinter
    /\ NoGoroutines
    /\ NothingStored
    /\ NoSorters
    /\ containers \in UNION {[1..k -> BOOLEAN] : k \in 1..MaxContainers}
    /\ bound = <<>>
    /\ checked = {}

NextContainers ==
    \/ ReadBytesReturn
    \/ LintNoResources
    \/ BeginDeployment
    \/ LintPanic
    \/ LintOverflow
    \/ ContainerPass
    \/ ContainerFail
    \/ EndUnit
    \/ ApplyFixes
    \/ FixNextSorter
    \/ FixPanic
    \/ FixSucceed
    \/ FixFail
    \/ ApplyFixesReturn

SpecContainers == InitContainers /\ [][NextContainers]_vars

\* ------------------------------------------------- the ruleSorter by itself
\* A caller that builds a ruleSorter from the rules, may clone it, and calls
\* its methods in any order. The edges of a ruleSorter are a Go map of Go
\* maps: `sorters` holds, for every ruleSorter, the address of the inner map
\* of each of its keys, and `maps` the contents of the inner maps.
Sorters == {"original", "clone"}

\* The value of the ruleSorter called name.
sorterAt(name) ==
    [rules |-> [id \in RuleIDs |-> Prereqs[id]],
     edges |-> [id \in DOMAIN sorters[name] |-> maps[sorters[name][id]]]]

\* The ids for which a call of getDependents on the ruleSorter never returns.
neverReturns(name) == {id \in RuleIDs : getDependentsOverflows(sorterAt(name), id)}

\* A method has brought the ruleSorter called name to the value r by deleting
\* keys of its edges and elements of the inner maps its keys point to.
mutate(name, r) ==
    /\ sorters' = [sorters EXCEPT ![name] = [id \in DOMAIN r.edges |-> sorters[name][id]]]
    /\ maps' = [a \in DOMAIN maps |->
                    IF \E id \in DOMAIN r.edges : sorters[name][id] = a
                    THEN r.edges[CHOOSE id \in DOMAIN r.edges : sorters[name][id] = a]
                    ELSE maps[a]]

\* A clone whose edges point to the inner maps of the original.
cloneEdgesSharing(name, edges) == edges

\* clone(): a new inner map for every key of the edges.
cloneEdges(name, edges) == [id \in DOMAIN edges |-> <<name, id>>]

\* clone() of the original ruleSorter.
SorterClone ==
    /\ pc \in {"newRuleSorter", "popNextAvailable", "popDependentRules", "remove"}
    /\ "clone" \notin DOMAIN sorters
    /\ LET edges == cloneEdges("clone", sorters["original"])
       IN /\ sorters' = sorters @@ ("clone" :> edges)
          /\ maps' = [a \in DOMAIN maps \cup Range(edges) |->
                        IF a \in DOMAIN maps THEN maps[a]
                        ELSE maps[sorters["original"][a[2]]]]
    /\ pc' = "clone"
    /\ UNCHANGED <<registers, docs, resources, errors, lresources, unit, ruleSorter,
                   unitResults, results, returned, returnedErrors, fixes, sorterIdx,
                   descriptions, fixed, condLog, cascaded, fixLog, earlier, goroutines,
                   stored, deployment>>

\* The position of a caller that may call a method of a ruleSorter.
atSorter == pc \in {"newRuleSorter", "clone", "popNextAvailable", "popDependentRules", "remove"}

\* popNextAvailable() on the ruleSorter called name.
SorterPopNextAvailable(name) ==
    /\ atSorter
    /\ \E ruleId \in available(sorterAt(name)) \ neverReturns(name) :
            mutate(name, popNextAvailable(sorterAt(name), ruleId))
    /\ pc' = "popNextAvailable"
    /\ UNCHANGED <<registers, docs, resources, errors, lresources, unit, ruleSorter,
                   unitResults, results, returned, returnedErrors, fixes, sorterIdx,
                   descriptions, fixed, condLog, cascaded, fixLog, earlier, goroutines,
                   stored, deployment>>

\* popNextAvailable() that finds no rule without incoming edges and panics.
SorterPanic(name) ==
    /\ atSorter
    /\ available(sorterAt(name)) = {}
    /\ pc' = "panic"
    /\ UNCHANGED <<registers, docs, resources, errors, lresources, unit, ruleSorter,
                   unitResults, results, returned, returnedErrors, fixes, sorterIdx,
                   descriptions, fixed, condLog, cascaded, fixLog, earlier, goroutines,
                   stored, sorterState, deployment>>

\* A method whose call of getDependents recurses without end.
SorterOverflow(name) ==
    /\ atSorter
    /\ neverReturns(name) # {}
    /\ pc' = "overflow"
    /\ UNCHANGED <<registers, docs, resources, errors, lresources, unit, ruleSorter,
                   unitResults, results, returned, returnedErrors, fixes, sorterIdx,
                   descriptions, fixed, condLog, cascaded, fixLog, earlier, goroutines,
                   stored, sorterState, deployment>>

\* popDependentRules(id) on the ruleSorter called name.
SorterPopDependentRules(name, id) ==
    /\ atSorter
    /\ id \notin neverReturns(name)
    /\ \E dependents \in getDependents(sorterAt(name), id) :
            mutate(name, popDependentRules(sorterAt(name), dependents))
    /\ pc' = "popDependentRules"
    /\ UNCHANGED <<registers, docs, resources, errors, lresources, unit, ruleSorter,
                   unitResults, results, returned, returnedErrors, fixes, sorterIdx,
                   descriptions, fixed, condLog, cascaded, fixLog, earlier, goroutines,
                   stored, deployment>>

\* remove(id) on the ruleSorter called name.
SorterRemove(name, id) ==
    /\ atSorter
    /\ id \notin neverReturns(name)
    /\ mutate(name, remove(sorterAt(name), id))
    /\ pc' = "remove"
    /\ UNCHANGED <<registers, docs, resources, errors, lresources, unit, ruleSorter,
                   unitResults, results, returned, returnedErrors, fixes, sorterIdx,
                   descriptions, fixed, condLog, cascaded, fixLog, earlier, goroutines,
                   stored, deployment>>

\* newRuleSorter(rules) has returned the original ruleSorter.
InitSorter ==
    /\ Prereqs \in RuleSets
    /\ kind = [i \in RuleIDs |-> "generic"]
    /\ hasCondition = [i \in RuleIDs |-> TRUE]
    /\ hasFix = [i \in RuleIDs |-> TRUE]
    /\ docs = <<"resource">>
    /\ pc = "newRuleSorter"
    /\ InitLinter
    /\ NoGoroutines
    /\ NothingStored
    /\ NoDeployment
    /\ sorters = [name \in {"original"} |-> [id \in RuleIDs |-> <<name, id>>]]
    /\ maps = [a \in {"original"} \X RuleIDs |-> Prereqs[a[2]]]

NextSorter ==
    \/ \E name \in DOMAIN sorters : SorterPopNextAvailable(name)
    \/ \E name \in DOMAIN sorters : SorterPanic(name)
    \/ \E name \in DOMAIN sorters : SorterOverflow(name)
    \/ \E name \in DOMAIN sorters, id \in RuleIDs : SorterPopDependentRules(name, id)
    \/ \E name \in DOMAIN sorters, id \in RuleIDs : SorterRemove(name, id)

SpecSorter == InitSorter /\ [][NextSorter]_vars

NextClone == NextSorter \/ SorterClone

SpecClone == InitSorter /\ [][NextClone]_vars

\* ------------------------------------ the loops with the lowest ready rule
\* The evaluation loop and the loop of ApplyFixes as they run when the first
\* loop of popNextAvailable always stops at the ready rule with the lowest
\* ID, for Conditions and Fixes that return what `returns` says.
lowest(S) == CHOOSE i \in S : \A j \in S : i <= j

\* The loop of LintResource from the graph r on: the rules whose Condition
\* it invokes, the rules it reports, the rules that pass, and whether
\* popNextAvailable panics.
RECURSIVE evaluateFrom(_, _, _)
evaluateFrom(r, returns, acc) ==
    IF isEmpty(r) THEN acc
    ELSE IF available(r) = {} THEN [acc EXCEPT !.panic = TRUE]
    ELSE LET ruleId == lowest(available(r))
             popped == popNextAvailable(r, ruleId)
             dependentRules == CHOOSE s \in getDependents(popped, ruleId) : TRUE
         IN IF returns[ruleId]
            THEN evaluateFrom(popped, returns,
                    [acc EXCEPT !.invoked = @ \cup {ruleId}, !.passed = @ \cup {ruleId}])
            ELSE evaluateFrom(popDependentRules(popped, dependentRules), returns,
                    [acc EXCEPT !.invoked = @ \cup {ruleId},
                                !.reported = @ \cup {ruleId} \cup Range(dependentRules)])

evaluate(rules, returns) ==
    evaluateFrom(newRuleSorter(rules), returns,
                 [invoked |-> {}, reported |-> {}, passed |-> {}, panic |-> FALSE])

\* The fix graph the evaluation leaves: the clone, with remove called for
\* every rule that passed.
RECURSIVE removeAll(_, _)
removeAll(r, S) ==
    IF S = {} THEN r ELSE removeAll(remove(r, lowest(S)), S \ {lowest(S)})

\* The inner loop of ApplyFixes from the graph r on: the rules whose Fix it
\* invokes, and whether popNextAvailable panics.
RECURSIVE drainFrom(_, _, _)
drainFrom(r, returns, acc) ==
    IF isEmpty(r) THEN acc
    ELSE IF available(r) = {} THEN [acc EXCEPT !.panic = TRUE]
    ELSE LET ruleId == lowest(available(r))
             popped == popNextAvailable(r, ruleId)
             dependentRules == CHOOSE s \in getDependents(popped, ruleId) : TRUE
         IN IF returns[ruleId]
            THEN drainFrom(popped, returns, [acc EXCEPT !.invoked = @ \cup {ruleId}])
            ELSE drainFrom(popDependentRules(popped, dependentRules), returns,
                    [acc EXCEPT !.invoked = @ \cup {ruleId}])

drain(rules, passedRules, returns) ==
    drainFrom(removeAll(clone(newRuleSorter(rules)), passedRules), returns,
              [invoked |-> {}, panic |-> FALSE])

\* ------------------------------------------------- vocabulary of the claims
Units == 0..nres

\* Direct and transitive prerequisites of a rule of a unit: the least set
\* that holds the rule's Prereqs and the Prereqs of the rules it holds.
RECURSIVE closure(_, _, _)
closure(rules, S, n) ==
    IF n = 0 THEN S
    ELSE closure(rules, S \cup UNION {rules[i] : i \in S \cap DOMAIN rules}, n - 1)

transitivePrereqs(rules, id) == closure(rules, rules[id], Cardinality(DOMAIN rules))

\* Direct and transitive dependents of a rule of a unit: the least set that
\* holds the rules naming it, or naming a rule of the set, in their Prereqs.
RECURSIVE coclosure(_, _, _)
coclosure(rules, S, n) ==
    IF n = 0 THEN S
    ELSE coclosure(rules, S \cup {d \in DOMAIN rules : rules[d] \cap S # {}}, n - 1)

transitiveDependents(rules, id) == coclosure(rules, {d \in DOMAIN rules : id \in rules[d]}, Cardinality(DOMAIN rules))

HasCycle(u) == \E id \in DOMAIN createRules(u) : id \in transitivePrereqs(createRules(u), id)
HasDangling(u) == \E id \in DOMAIN createRules(u) : ~(Prereqs[id] \subseteq DOMAIN createRules(u))
WellFormed(u) == ~HasCycle(u) /\ ~HasDangling(u)

CondEntry(u, id, ok) == [unit |-> u, rule |-> id, ok |-> ok]
passed(u) == {id \in RuleIDs : CondEntry(u, id, TRUE) \in Range(condLog)}
failed(u) == {id \in RuleIDs : CondEntry(u, id, FALSE) \in Range(condLog)}
cascadedIn(u) == {id \in RuleIDs : Result(u, id) \in cascaded}
fixInvoked(u) == {e.rule : e \in {x \in Range(fixLog) : x.unit = u}}

\* The rules the Results of unit u name, and the Results themselves.
resultsOf(u) ==
    IF u = unit /\ pc \in {"lint", "panic", "overflow"} /\ sorterIdx = 0
    THEN Results(u, unitResults)
    ELSE SelectSeq(results, LAMBDA x : x.unit = u)
reported(u) == {x.rule : x \in Range(resultsOf(u))}

\* ApplyFixes has been entered; the evaluation of unit u has run to its end.
fixing == sorterIdx > 0
finished(u) == u < unit \/ (u = unit /\ (pc = "returned" \/ fixing))
\* The evaluation of the unit at hand has left its loop, one way or another.
leftLoop == pc \notin {"LintBytes", "lint"}

\* ------------------------------------------------------------------ claims

\* C1: a rule's Condition is invoked only after each of its direct and
\* transitive prerequisites had its own Condition invoked in the same unit and
\* return true.
C1_ConditionAfterPrerequisites ==
    \A i \in DOMAIN condLog :
        \A p \in transitivePrereqs(createRules(condLog[i].unit), condLog[i].rule) :
            \E j \in 1..(i - 1) : condLog[j] = CondEntry(condLog[i].unit, p, TRUE)

\* C1 witness: the Condition of a rule with a prerequisite that itself has a
\* prerequisite has been invoked.
C1_Witness ==
    \E i \in DOMAIN condLog :
        \E p \in Prereqs[condLog[i].rule] : p \in RuleIDs /\ Prereqs[p] # {}

\* C2: once a rule's Condition has returned false, every rule that depends on
\* it directly or transitively has a Result in the unit's Results and its
\* Condition is never invoked.
C2_FailureCascadesWithoutInvoking ==
    \A u \in Units : \A a \in failed(u) :
        \A d \in transitiveDependents(createRules(u), a) :
            d \in reported(u) /\ d \notin passed(u) \cup failed(u)

\* C2 witness: a rule failed, the rule that depends on it through another
\* rule was reported, and LintBytes has returned.
C2_Witness ==
    /\ pc = "returned"
    /\ \E a \in failed(1) : \E d \in RuleIDs :
            /\ d \in transitiveDependents(createRules(1), a)
            /\ a \notin Prereqs[d]
            /\ Result(1, d) \in Range(returned)

\* C3: for a well-formed rule set the Results of a unit hold at most one
\* entry per rule, and as many entries as there are rules that failed plus
\* rules that were cascaded.
C3_OneResultPerRule ==
    \A u \in Units :
        (finished(u) /\ WellFormed(u)) =>
            /\ \A i, j \in DOMAIN resultsOf(u) : resultsOf(u)[i] = resultsOf(u)[j] => i = j
            /\ Len(resultsOf(u)) = Cardinality(failed(u)) + Cardinality(cascadedIn(u))

\* C4: for a well-formed rule set, when the evaluator has finished a unit the
\* rules that passed, the rules that failed and the rules that were cascaded
\* are pairwise disjoint and together make up the unit's rule set.
C4_OutcomesPartitionRules ==
    \A u \in Units :
        finished(u) =>
            \/ /\ passed(u) \cap failed(u) = {}
               /\ passed(u) \cap cascadedIn(u) = {}
               /\ failed(u) \cap cascadedIn(u) = {}
               /\ passed(u) \cup failed(u) \cup cascadedIn(u) = DOMAIN createRules(u)
            \/ ~WellFormed(u)

\* C4 witness: a finished unit with a rule in each of the three classes.
C4_Witness ==
    /\ finished(1) /\ WellFormed(1)
    /\ passed(1) # {} /\ failed(1) # {} /\ cascadedIn(1) # {}

\* C5: a unit whose Prereqs contain a cycle always ends in the panic of
\* popNextAvailable, and its caller receives no Results.
C5_CycleAlwaysPanics ==
    (HasCycle(unit) /\ leftLoop) => (pc = "panic" /\ ~fixing /\ returned = <<>>)

\* C6: a unit in which a rule names a prerequisite that is not registered
\* always ends in the panic of popNextAvailable (stated for the units without
\* a cycle, where no other failure is at stake).
C6_DanglingAlwaysPanics ==
    (HasDangling(unit) /\ ~HasCycle(unit) /\ leftLoop) => (pc = "panic" /\ ~fixing)

\* C7: when a unit of LintBytes ends in the panic of popNextAvailable, the
\* caller still receives the Results already produced for the other units.
C7_PartialResultsSurvivePanic ==
    (pc = "panic" /\ ~fixing) => returned = results

\* C8: ApplyFixes never invokes the Fix of a rule whose Condition returned
\* true during the evaluation of its unit.
C8_NoFixForPassedRule ==
    \A u \in Units : fixInvoked(u) \cap passed(u) = {}

\* C8 witness: a Fix has been invoked for a rule one of whose prerequisites
\* passed during evaluation.
C8_Witness ==
    \E u \in Units : \E id \in fixInvoked(u) : Prereqs[id] \cap passed(u) # {}

\* C9: when the evaluator has finished a unit, the keys of the unit's fix
\* graph are the rules that failed or were cascaded, and every pending set of
\* it holds only such rules.
C9_FixGraphHoldsReportedRules ==
    \A u \in Units :
        (finished(u) /\ ~fixing) =>
            LET edges == fixes[fixBase + u + 1].edges
                bad == failed(u) \cup cascadedIn(u)
            IN /\ DOMAIN edges = bad
               /\ \A id \in DOMAIN edges : edges[id] \subseteq bad

\* C10: once the Fix of a rule has returned false, no Fix is ever invoked
\* for a direct or transitive dependent of it in the same unit, and the
\* Results the evaluation returned stay as they were returned.
C10_FailedFixStopsDependents ==
    /\ \A i \in DOMAIN fixLog :
        ~fixLog[i].ok =>
            transitiveDependents(createRules(fixLog[i].unit), fixLog[i].rule)
                \cap fixInvoked(fixLog[i].unit) = {}
    /\ fixing =>
        /\ returned = results
        /\ \A u \in Units : reported(u) = failed(u) \cup cascadedIn(u)

\* C10 witness: ApplyFixes has returned after a Fix returned false for a
\* rule that has a dependent, while the Fix of another rule succeeded.
C10_Witness ==
    /\ pc = "applied"
    /\ \E i \in DOMAIN fixLog :
        /\ ~fixLog[i].ok
        /\ transitiveDependents(createRules(fixLog[i].unit), fixLog[i].rule) # {}
    /\ descriptions # <<>>

\* C11: the Fix of a rule is invoked only after each of its prerequisites
\* either passed its Condition during the evaluation of the unit or had its
\* own Fix return true earlier in the same fix pass (so that in a chain
\* A <- B whose fixes both succeed, A is fixed before B).
C11_FixAfterPrerequisites ==
    \A i \in DOMAIN fixLog :
        \A p \in Prereqs[fixLog[i].rule] :
            \/ p \in passed(fixLog[i].unit)
            \/ \E j \in 1..(i - 1) :
                fixLog[j] = [unit |-> fixLog[i].unit, rule |-> p, ok |-> TRUE]

\* C11 witness: ApplyFixes has returned after the Fix of a rule and then the
\* Fix of a rule that names it in its Prereqs both returned true.
C11_Witness ==
    /\ pc = "applied"
    /\ \E i, j \in DOMAIN fixLog :
        /\ i < j
        /\ fixLog[i].ok /\ fixLog[j].ok
        /\ fixLog[i].unit = fixLog[j].unit
        /\ fixLog[i].rule \in Prereqs[fixLog[j].rule]

\* C12: when ApplyFixes is over, by returning or by the panic of
\* popNextAvailable, the Fix of every rule whose own Condition was invoked and
\* returned false has been invoked.
C12_FailedRuleGetsFixed ==
    (pc = "applied" \/ (pc = "panic" /\ fixing)) =>
        \A u \in Units : failed(u) \subseteq fixInvoked(u)

\* C13: the descriptions of ApplyFixes hold exactly one entry for every Fix
\* that returned true, in the order the fixes were applied and with the units
\* in the order they were linted, and no other entry.
C13_DescriptionsMatchSuccessfulFixes ==
    LET applied == SelectSeq(fixLog, LAMBDA e : e.ok)
    IN /\ Len(descriptions) = Len(applied)
       /\ \A i \in DOMAIN descriptions :
            descriptions[i] = Result(applied[i].unit, applied[i].rule)
       /\ \A i, j \in DOMAIN descriptions :
            /\ i < j => descriptions[i].unit <= descriptions[j].unit
            /\ descriptions[i] = descriptions[j] => i = j

\* C13 witness: ApplyFixes has returned descriptions for two units after a
\* Fix returned false and a dependent of its rule was dropped.
C13_Witness ==
    /\ pc = "applied"
    /\ \E i, j \in DOMAIN descriptions : descriptions[i].unit # descriptions[j].unit
    /\ \E i \in DOMAIN fixLog :
        /\ ~fixLog[i].ok
        /\ transitiveDependents(createRules(fixLog[i].unit), fixLog[i].rule)
              \cap cascadedIn(fixLog[i].unit) # {}

\* C15: popNextAvailable's choice is a function of the graph: in every
\* iteration of the evaluation loop there is at most one rule its first loop
\* can stop at, so that two runs over the same rules and the same Condition
\* outcomes pop the same sequence.
C15_PopChoiceIsDetermined ==
    pc = "lint" => Cardinality(available(ruleSorter)) <= 1

\* C14: the resources ApplyFixes returns are the resources that a Fix which
\* returned true was bound to (those of the whole batch for a rule of the
\* collection), and no other.
C14_ReturnedResourcesWereFixed ==
    pc = "applied" =>
        Range(fixed) =
            {r \in Range(resources) :
                \E e \in Range(fixLog) : e.ok /\ (e.unit = 0 \/ resources[e.unit] = r)}

\* C17: every rule of the generic register has been handled (its Condition
\* invoked, or the rule reported as a dependent) in every resource's unit
\* that LintResource has finished, whatever the resource's kind.
C17_GenericRulesOnEveryResource ==
    \A u \in 1..nres :
        finished(u) =>
            {id \in RuleIDs : kind[id] = "generic"}
                \subseteq passed(u) \cup failed(u) \cup cascadedIn(u)

\* C18: for every document of the input that does not decode: once ReadBytes
\* is over the errors hold an entry for it, the batch does not hold it and
\* holds every document that decodes; and once LintBytes has returned the
\* caller has the entry and every resource of the batch has been linted.
C18_UndecodableDocumentIsIsolated ==
    \A i \in DOMAIN docs :
        ~decodes(docs[i]) =>
            /\ pc # "ReadBytes" =>
                /\ \E e \in Range(errors) : e.doc = i
                /\ i \notin Range(resources)
                /\ \A j \in DOMAIN docs : decodes(docs[j]) => j \in Range(resources)
            /\ pc = "returned" =>
                /\ \E e \in Range(returnedErrors) : e.doc = i
                /\ Len(fixes) = fixBase + nres + 1

\* C20 as stated: a rule defined without a Condition never has a Result,
\* never fails, never has its Fix invoked, and is not a key of the fix graph
\* of a unit the evaluator has finished.
C20_NoConditionNeverReported ==
    \A u \in Units : \A id \in DOMAIN createRules(u) :
        ~hasCondition[id] =>
            /\ id \notin failed(u)
            /\ id \notin reported(u)
            /\ id \notin fixInvoked(u)
            /\ finished(u) => id \notin DOMAIN fixes[fixBase + u + 1].edges

\* C20 amended: a rule defined without a Condition never fails, and unless it
\* is reported as a dependent of a failed prerequisite it has no Result, its
\* Fix is never invoked, and it is not a key of the fix graph of a unit the
\* evaluator has finished.
C20_NoConditionPassesWhenReached ==
    \A u \in Units : \A id \in DOMAIN createRules(u) :
        ~hasCondition[id] =>
            /\ id \notin failed(u)
            /\ id \notin cascadedIn(u) =>
                /\ id \notin reported(u)
                /\ id \notin fixInvoked(u)
                /\ finished(u) => id \notin DOMAIN fixes[fixBase + u + 1].edges

\* C20 witness: ApplyFixes has returned after a unit in which a rule defined
\* without a Condition passed and a rule that names it in its Prereqs failed
\* and had its Fix invoked.
C20_Witness ==
    /\ pc = "applied"
    /\ \E id \in passed(1) :
        /\ ~hasCondition[id]
        /\ \E d \in failed(1) \cap fixInvoked(1) : id \in Prereqs[d]

\* C19: when two LintResource calls that ran at the same time on one Linter
\* have both returned, Linter.fixes holds the fix graph of each exactly once,
\* and each fix graph holds the rules its own call reported.
C19_ConcurrentUnitsBothRegistered ==
    (\A g \in Goroutines : gpc[g] = "done") =>
        \A g \in Goroutines :
            /\ Cardinality({i \in DOMAIN gFixes : gFixes[i] = g}) = 1
            /\ DOMAIN gFixSorter[g].edges = Range(gResults[g])

\* The Conditions invoked so far in the second round obey the assumption of
\* C16: the Condition of a rule whose Fix returned true returns true, and so
\* does every Condition that returned true in the first round.
FixesHold ==
    \A e \in Range(condLog) :
        Result(e.unit, e.rule) \in earlier[1].fixed \cup earlier[1].passed => e.ok

\* C16: when the evaluator runs again after ApplyFixes, over the same rules
\* and with Conditions that obey the assumption, no rule whose Fix returned
\* true has a Result.
C16_FixedRuleNotReportedAgain ==
    (earlier # <<>> /\ FixesHold) =>
        \A x \in earlier[1].fixed : x.rule \notin reported(x.unit)

\* C16 witness: the second LintBytes has returned Results, with Conditions
\* that obey the assumption, after a first round in which the Fix of a rule
\* and the Fix of a rule that names it in its Prereqs both returned true.
C16_Witness ==
    /\ earlier # <<>>
    /\ pc = "returned"
    /\ FixesHold
    /\ returned # <<>>
    /\ \E x, y \in earlier[1].fixed : x.unit = y.unit /\ x.rule \in Prereqs[y.rule]

\* C21: in ApplyFixes a rule defined without a Fix behaves as one whose Fix
\* returns false: its Fix never succeeds, no description is recorded for it,
\* and once it has been popped no Fix is invoked for any direct or
\* transitive dependent of it in the same fix graph.
C21_NoFixActsAsFailedFix ==
    \A i \in DOMAIN fixLog :
        ~hasFix[fixLog[i].rule] =>
            /\ ~fixLog[i].ok
            /\ Result(fixLog[i].unit, fixLog[i].rule) \notin Range(descriptions)
            /\ transitiveDependents(createRules(fixLog[i].unit), fixLog[i].rule)
                    \cap fixInvoked(fixLog[i].unit) = {}

\* C21 witness: ApplyFixes has returned after it popped a rule defined
\* without a Fix that has a dependent with a Fix of its own in the same fix
\* graph, while the Fix of another rule was described.
C21_Witness ==
    /\ pc = "applied"
    /\ descriptions # <<>>
    /\ \E i \in DOMAIN fixLog :
        /\ ~hasFix[fixLog[i].rule]
        /\ \E d \in transitiveDependents(createRules(fixLog[i].unit), fixLog[i].rule) :
            /\ hasFix[d]
            /\ d \in reported(fixLog[i].unit)

\* C24: the step of the evaluator that handles a rule whose Condition
\* returned false leaves every fix graph as it was, and the failed rule and
\* the dependents reported with it are keys of the unit's fix graph after it.
C24_FailedConditionLeavesFixGraph ==
    [][(Len(condLog') = Len(condLog) + 1 /\ ~condLog'[Len(condLog')].ok) =>
        /\ fixes' = fixes
        /\ {unitResults'[i] : i \in (DOMAIN unitResults') \ (DOMAIN unitResults)}
              \subseteq DOMAIN fixes'[Len(fixes')].edges]_vars

\* C24 witness: the evaluator has just handled a rule whose Condition
\* returned false and reported a dependent with it; both are keys of the fix
\* graph, the dependent with the pending set it was registered with.
C24_Witness ==
    /\ pc = "lint"
    /\ condLog # <<>>
    /\ ~condLog[Len(condLog)].ok
    /\ condLog[Len(condLog)].unit = unit
    /\ condLog[Len(condLog)].rule \in DOMAIN fixes[Len(fixes)].edges
    /\ \E d \in cascadedIn(unit) :
        /\ d \in DOMAIN fixes[Len(fixes)].edges
        /\ fixes[Len(fixes)].edges[d] = Prereqs[d]
        /\ condLog[Len(condLog)].rule \in Prereqs[d]

\* C29: getDependents terminates for every rule set and every id, rule sets
\* with a cycle among the dependents of id included: no call of it that
\* popNextAvailable makes for the rule it chose recurses without end, so
\* that no evaluation ends in a stack overflow.
C29_GetDependentsTerminates == pc # "overflow"

\* The pending map of a ruleSorter: its keys and what each of them waits for.
pendingOf(name) == sorterAt(name).edges

\* Whether no rule is among its own direct or transitive prerequisites.
acyclic(rules) == \A id \in DOMAIN rules : id \notin transitivePrereqs(rules, id)

\* C23: clone returns a graph whose pending map equals the original's at the
\* time of the call and leaves the original as it is; afterwards no step of
\* popNextAvailable, popDependentRules or remove changes the pending maps of
\* both graphs, so that a call on one never changes the other.
C23_CloneIsIndependent ==
    [][/\ ("clone" \notin DOMAIN sorters /\ "clone" \in DOMAIN sorters') =>
            /\ pendingOf("original")' = pendingOf("original")
            /\ pendingOf("clone")' = pendingOf("original")
       /\ "clone" \in DOMAIN sorters =>
            \/ pendingOf("original")' = pendingOf("original")
            \/ pendingOf("clone")' = pendingOf("clone")]_sorterState

\* C23 witness: after the clone was made, calls on the two graphs have left
\* a rule that is a key of both waiting for different prerequisites, and a
\* rule that is a key of the clone only.
C23_Witness ==
    /\ pc \in {"popNextAvailable", "popDependentRules", "remove"}
    /\ "clone" \in DOMAIN sorters
    /\ \E id \in DOMAIN sorters["original"] \cap DOMAIN sorters["clone"] :
            pendingOf("original")[id] # pendingOf("clone")[id]
    /\ DOMAIN sorters["clone"] \ DOMAIN sorters["original"] # {}

\* C25: in every step of popNextAvailable, popDependentRules and remove the
\* pending map only shrinks: no key is added and no pending set gains an
\* element (so that a key once deleted never reappears).
C25_PendingMapOnlyShrinks ==
    [][\A name \in DOMAIN sorters :
        /\ DOMAIN pendingOf(name)' \subseteq DOMAIN pendingOf(name)
        /\ \A id \in DOMAIN pendingOf(name)' :
                pendingOf(name)'[id] \subseteq pendingOf(name)[id]]_sorterState

\* C25 witness: remove has returned; a key is gone and a rule that waited
\* for prerequisites at first still waits for some of them, not for all.
C25_Witness ==
    /\ pc = "remove"
    /\ DOMAIN sorters["original"] # RuleIDs
    /\ \E id \in DOMAIN sorters["original"] :
        /\ pendingOf("original")[id] # {}
        /\ pendingOf("original")[id] # Prereqs[id]

\* C27: popNextAvailable returns only a rule that is a key with an empty
\* pending set; after it that rule is neither a key nor an element of any
\* remaining pending set, and every other key and pending element is as before.
C27_PopNextAvailablePostcondition ==
    [][pc' = "popNextAvailable" =>
        \E name \in DOMAIN sorters :
            \E ruleId \in DOMAIN pendingOf(name) :
                /\ pendingOf(name)[ruleId] = {}
                /\ DOMAIN pendingOf(name)' = DOMAIN pendingOf(name) \ {ruleId}
                /\ \A d \in DOMAIN pendingOf(name)' :
                        pendingOf(name)'[d] = pendingOf(name)[d] \ {ruleId}]_sorterState

\* C27 witness: popNextAvailable has returned a rule that another rule,
\* still a key, waited for, and that other rule waits for something else yet.
C27_Witness ==
    /\ pc = "popNextAvailable"
    /\ \E id \in RuleIDs \ DOMAIN sorters["original"] :
        \E d \in DOMAIN sorters["original"] :
            /\ Prereqs[id] = {}
            /\ id \in Prereqs[d]
            /\ id \notin pendingOf("original")[d]
            /\ pendingOf("original")[d] # {}

\* C28: for every acyclic rule set and every id, the rules getDependents
\* returns for id are exactly the rules from which id is reachable by
\* following Prereqs one or more times.
C28_GetDependentsIsTransitiveClosure ==
    \A name \in DOMAIN sorters :
        acyclic(sorterAt(name).rules) =>
            \A id \in IDs :
                dependentIDs(sorterAt(name), id) = transitiveDependents(sorterAt(name).rules, id)

\* C28 witness: popDependentRules has deleted, in an acyclic rule set, a
\* rule that depends on some rule through a third one only.
C28_Witness ==
    /\ pc = "popDependentRules"
    /\ acyclic(sorterAt("original").rules)
    /\ \E id \in RuleIDs :
        \E d \in transitiveDependents(sorterAt("original").rules, id) :
            /\ id \notin Prereqs[d]
            /\ id \in DOMAIN sorters["original"]
            /\ d \notin DOMAIN sorters["original"]
            /\ Prereqs[d] \cap DOMAIN sorters["original"] = {}

\* C30: for a rule id that is a key of the graph, remove(id) deletes the key
\* id, removes id from every remaining pending set and changes nothing
\* else, which is the state popNextAvailable leaves when it selects id.
C30_RemoveIsPopWithoutChoice ==
    \A name \in DOMAIN sorters :
        \A id \in DOMAIN pendingOf(name) \ neverReturns(name) :
            LET removed == remove(sorterAt(name), id).edges
            IN /\ DOMAIN removed = DOMAIN pendingOf(name) \ {id}
               /\ \A d \in DOMAIN removed : removed[d] = pendingOf(name)[d] \ {id}
               /\ removed = popNextAvailable(sorterAt(name), id).edges

\* C30 witness: remove has deleted a key that was not ready (it waits for
\* a rule that was never registered) and another rule, still a key, no
\* longer waits for it.
C30_Witness ==
    /\ pc = "remove"
    /\ \E id \in RuleIDs \ DOMAIN sorters["original"] :
        /\ Unregistered \in Prereqs[id]
        /\ \E d \in DOMAIN sorters["original"] :
            /\ id \in Prereqs[d]
            /\ id \notin pendingOf("original")[d]

\* The rules name registered rules only in their Prereqs, and none of them
\* is among its own prerequisites.
wellFormedRules ==
    /\ acyclic([id \in RuleIDs |-> Prereqs[id]])
    /\ \A id \in RuleIDs : Prereqs[id] \subseteq RuleIDs

\* The graph the loop of ApplyFixes is draining.
fixGraph == fixes[sorterIdx]

\* C26: for every acyclic rule set with registered prerequisites, a ready
\* rule exists whenever the graph of the evaluator loop or of the ApplyFixes
\* loop is not empty, every iteration of either loop deletes at least one
\* key of its graph, and both loops come to their end with every graph empty.
C26_LoopsTerminateWithEmptyGraphs ==
    /\ [](wellFormedRules =>
            /\ (pc = "lint" /\ ~isEmpty(ruleSorter)) => available(ruleSorter) # {}
            /\ (pc = "ApplyFixes" /\ sorterIdx <= Len(fixes) /\ ~isEmpty(fixGraph))
                    => available(fixGraph) # {})
    /\ [][wellFormedRules =>
            /\ condLog' # condLog =>
                    /\ DOMAIN ruleSorter'.edges \subseteq DOMAIN ruleSorter.edges
                    /\ DOMAIN ruleSorter'.edges # DOMAIN ruleSorter.edges
            /\ fixLog' # fixLog =>
                    /\ DOMAIN fixGraph'.edges \subseteq DOMAIN fixGraph.edges
                    /\ DOMAIN fixGraph'.edges # DOMAIN fixGraph.edges]_vars
    /\ (pc = "ReadBytes" /\ wellFormedRules) ~>
            /\ pc = "applied"
            /\ isEmpty(ruleSorter)
            /\ \A i \in DOMAIN fixes : isEmpty(fixes[i])

\* C26 witness: both loops have come to their end for a rule set in which a
\* rule waits for a rule that waits for a third; a Condition failed during
\* the evaluation and a Fix during the fix pass.
C26_Witness ==
    /\ pc = "applied"
    /\ wellFormedRules
    /\ \E id \in RuleIDs : \E d \in Prereqs[id] : Prereqs[d] # {}
    /\ \E i \in DOMAIN condLog : ~condLog[i].ok
    /\ \E i \in DOMAIN fixLog : fixLog[i].ok
    /\ \A i \in DOMAIN fixes : isEmpty(fixes[i])

\* createRule has been called for the rules of the interdependent register.
materialized == unit > 0 \/ pc \notin {"ReadBytes", "LintBytes", "panic"}

keysAfterCascade(r, id) == DOMAIN r.edges \ ({id} \cup transitiveDependents(r.rules, id))

\* C31: popDependentRules(id) deletes the key of every transitive dependent
\* of id and of no other rule, returns those dependents, and invokes neither
\* Condition nor Fix of any rule: in the evaluator the step of a failed
\* Condition reports exactly the dependents after the rule, logs no other
\* Condition and no Fix, and in ApplyFixes the step of a failed Fix logs no
\* other Fix and no Condition; what remains of the graph is as it was.
C31_PopDependentRulesFrame ==
    [][/\ (Len(condLog') = Len(condLog) + 1 /\ ~condLog'[Len(condLog')].ok) =>
            LET id == condLog'[Len(condLog')].rule
            IN /\ DOMAIN ruleSorter'.edges = keysAfterCascade(ruleSorter, id)
               /\ \A d \in DOMAIN ruleSorter'.edges :
                        ruleSorter'.edges[d] = ruleSorter.edges[d] \ {id}
               /\ {unitResults'[i] : i \in (DOMAIN unitResults') \ (1..Len(unitResults) + 1)}
                        = transitiveDependents(ruleSorter.rules, id)
               /\ unitResults'[Len(unitResults) + 1] = id
               /\ fixLog' = fixLog
       /\ (Len(fixLog') = Len(fixLog) + 1 /\ ~fixLog'[Len(fixLog')].ok) =>
            LET id == fixLog'[Len(fixLog')].rule
            IN /\ DOMAIN fixGraph'.edges = keysAfterCascade(fixGraph, id)
               /\ \A d \in DOMAIN fixGraph'.edges :
                        fixGraph'.edges[d] = fixGraph.edges[d] \ {id}
               /\ condLog' = condLog
       /\ Len(condLog') <= Len(condLog) + 1
       /\ Len(fixLog') <= Len(fixLog) + 1]_vars

\* C31 witness: the evaluator has just reported a failed rule together with
\* a dependent that does not name it in its Prereqs and is no longer a key.
C31_Witness ==
    /\ pc = "lint"
    /\ condLog # <<>>
    /\ ~condLog[Len(condLog)].ok
    /\ condLog[Len(condLog)].unit = unit
    /\ \E d \in cascadedIn(unit) :
        /\ condLog[Len(condLog)].rule \notin Prereqs[d]
        /\ d \in transitiveDependents(ruleSorter.rules, condLog[Len(condLog)].rule)
        /\ d \notin DOMAIN ruleSorter.edges

\* The positions of the Results of unit u that report a rule whose own
\* Condition failed, and the end of the reports that follow position j up
\* to the next such position.
heads(u) == {j \in DOMAIN resultsOf(u) : resultsOf(u)[j].rule \in failed(u)}
blockEnd(H, n, j) ==
    LET later == {k \in H : k > j}
    IN IF later = {} THEN n ELSE lowest(later) - 1

\* C32: in the Results of one unit the report of a rule whose Condition
\* failed is immediately followed by the reports of the dependents cascaded
\* from it, and by nothing else before the report of the next failed rule:
\* no report of a cascaded rule precedes that of the rule that caused it.
C32_CascadedReportsFollowTheirCause ==
    \A u \in Units :
        LET res == resultsOf(u)
            H == heads(u)
        IN /\ res # <<>> => 1 \in H
           /\ \A j \in H :
                {res[k].rule : k \in (j + 1)..blockEnd(H, Len(res), j)}
                    = transitiveDependents(createRules(u), res[j].rule)

\* C32 witness: LintBytes has returned the Results of a unit in which two
\* Conditions failed and the first of the two rules had a dependent.
C32_Witness ==
    /\ pc = "returned"
    /\ \E u \in Units :
        /\ Cardinality(heads(u)) = 2
        /\ 1 \in heads(u)
        /\ 2 \notin heads(u)
        /\ Len(resultsOf(u)) >= 3

\* C33: within one unit the Condition of a rule is invoked at most once
\* during the evaluation and its Fix at most once during ApplyFixes,
\* whatever the rule set and the outcomes.
C33_ConditionAndFixAtMostOnce ==
    /\ \A i, j \in DOMAIN condLog :
            (condLog[i].unit = condLog[j].unit /\ condLog[i].rule = condLog[j].rule) => i = j
    /\ \A i, j \in DOMAIN fixLog :
            (fixLog[i].unit = fixLog[j].unit /\ fixLog[i].rule = fixLog[j].rule) => i = j

\* C33 witness: ApplyFixes has returned after the evaluation invoked the
\* Condition of every rule of a unit and the fix pass the Fix of two of them.
C33_Witness ==
    /\ pc = "applied"
    /\ \E u \in Units :
        /\ passed(u) \cup failed(u) = RuleIDs
        /\ Cardinality(fixInvoked(u)) >= 2

\* C34: if the evaluation of a unit completed without the unsatisfiable-order
\* failure, ApplyFixes never raises it on that unit's fix graph: whenever
\* the fix graph being drained is not empty, some rule of it is ready.
C34_ApplyFixesNeverPanics ==
    (pc = "ApplyFixes" /\ sorterIdx <= Len(fixes) /\ ~isEmpty(fixGraph))
        => available(fixGraph) # {}

\* C35: once ApplyFixes has returned every fix graph registered on the
\* Linter is empty, so that a second ApplyFixes without a Lint call in
\* between invokes no Fix and returns no description.
C35_SecondApplyFixesDoesNothing ==
    /\ pc = "applied" => \A i \in DOMAIN fixes : isEmpty(fixes[i])
    /\ earlier # <<>> =>
        /\ fixLog = <<>>
        /\ descriptions = <<>>
        /\ pc # "panic"

\* C35 witness: the second ApplyFixes has returned, after a first one that
\* invoked Fixes that succeeded and a Fix that failed.
C35_Witness ==
    /\ pc = "applied"
    /\ earlier # <<>>
    /\ earlier[1].fixed # {}
    /\ Cardinality(failed(1) \cup cascadedIn(1)) > Cardinality(earlier[1].fixed)
    /\ fixed = lresources

\* Every rule a key of the graph waits for is a key of the graph itself.
pendingClosed(r) == \A d \in DOMAIN r.edges : r.edges[d] \subseteq DOMAIN r.edges

\* C36: for an acyclic rule set with registered prerequisites, every ID in
\* a pending set of the evaluation graph or of a fix graph is still a key
\* of that graph: no rule waits for a rule that was popped, removed or
\* cascaded away.
C36_PendingNamesOnlyKeys ==
    wellFormedRules =>
        /\ pendingClosed(ruleSorter)
        /\ \A i \in DOMAIN fixes : pendingClosed(fixes[i])

\* C36 witness: in a fix pass for a well-formed rule set a Fix has been
\* invoked and a rule of the fix graph still waits for another.
C36_Witness ==
    /\ pc = "ApplyFixes"
    /\ wellFormedRules
    /\ sorterIdx <= Len(fixes)
    /\ fixLog # <<>>
    /\ \E d \in DOMAIN fixGraph.edges : fixGraph.edges[d] # {}

\* The outcomes of Conditions and of Fixes, one per rule, that agree with
\* the outcomes logged for unit u.
conditionOutcomes(u) ==
    {f \in [RuleIDs -> BOOLEAN] :
        \A e \in Range(condLog) : e.unit = u => f[e.rule] = e.ok}
fixOutcomes(u) ==
    {f \in [RuleIDs -> BOOLEAN] :
        \A e \in Range(fixLog) : e.unit = u => f[e.rule] = e.ok}

\* The evaluation of unit u, and its fix pass, have ended, by running to
\* their end or by a panic of popNextAvailable.
evaluationPanicked(u) == u = unit /\ pc = "panic" /\ ~fixing
evaluationEnded(u) == finished(u) \/ evaluationPanicked(u)
fixPanicked(u) == pc = "panic" /\ sorterIdx = fixBase + u + 1
fixPassEnded(u) == pc = "applied" \/ sorterIdx > fixBase + u + 1 \/ fixPanicked(u)

\* LintBytes and ApplyFixes over the acyclic rule sets: getDependents
\* always returns.
InitAcyclic ==
    /\ Init
    /\ acyclic(Prereqs)

NextAcyclic ==
    \/ ReadBytesReturn
    \/ BeginUnit
    \/ LintPanic
    \/ LintPass
    \/ LintFail
    \/ EndUnit
    \/ ApplyFixes
    \/ FixNextSorter
    \/ FixPanic
    \/ FixSucceed
    \/ FixFail
    \/ ApplyFixesReturn

SpecAcyclic == InitAcyclic /\ [][NextAcyclic]_vars

\* LintBytes, or ApplyFixes, has come to its end, by returning or by a panic:
\* the logs of its run are complete.
lintAtEnd == pc = "returned" \/ (pc = "panic" /\ ~fixing)
fixesAtEnd == pc = "applied" \/ (pc = "panic" /\ fixing)

\* C37: for a fixed acyclic rule set and fixed outcomes of the Conditions
\* and Fixes, the rules reported, the rules whose Condition is invoked and
\* the rules whose Fix is invoked do not depend on the choices of
\* popNextAvailable: whatever it chose, they are the sets of the run in
\* which it always chooses the ready rule with the lowest ID.
C37_SetsIndependentOfPopChoice ==
    /\ (lintAtEnd /\ acyclic([id \in RuleIDs |-> Prereqs[id]])) =>
            \A u \in {v \in Units : evaluationEnded(v)} :
                \A f \in conditionOutcomes(u) :
                    LET e == evaluate(createRules(u), f)
                    IN /\ e.invoked = passed(u) \cup failed(u)
                       /\ e.reported = reported(u)
                       /\ e.panic = evaluationPanicked(u)
    /\ (fixesAtEnd /\ acyclic([id \in RuleIDs |-> Prereqs[id]])) =>
            \A u \in {v \in Units : finished(v) /\ fixPassEnded(v)} :
                \A g \in fixOutcomes(u) :
                    LET d == drain(createRules(u), passed(u), g)
                    IN /\ d.invoked = fixInvoked(u)
                       /\ d.panic = fixPanicked(u)

\* C37 witness: ApplyFixes has returned after an evaluation and a fix pass
\* in each of which popNextAvailable had two ready rules to choose from and
\* did not choose the one with the lowest ID first.
C37_Witness ==
    /\ pc = "applied"
    /\ acyclic([id \in RuleIDs |-> Prereqs[id]])
    /\ Len(condLog) >= 2
    /\ condLog[1].rule > condLog[2].rule
    /\ Prereqs[condLog[1].rule] = {} /\ Prereqs[condLog[2].rule] = {}
    /\ Len(fixLog) >= 2
    /\ fixLog[1].rule > fixLog[2].rule

\* C38: for a Deployment with k containers LintResource evaluates the rule
\* materialised for each container, so that every container is checked by
\* every rule whose Condition is invoked and a violating container is
\* reported, whichever position it has.
C38_EveryContainerIsChecked ==
    pc = "returned" =>
        /\ \A id \in passed(1) \cup failed(1) :
                \A i \in DOMAIN containers : <<id, i>> \in checked
        /\ (\E i \in DOMAIN containers : ~containers[i]) => returned # <<>>

\* The unit whose rules the g-th fix graph of Linter.fixes was cloned from:
\* the graphs of an earlier call of LintBytes come first.
unitOfGraph(g) == IF g <= fixBase THEN g - 1 ELSE g - fixBase - 1

\* The rules of unit u of a call of LintBytes on docs, whichever call it is.
rulesOfUnit(u) ==
    IF u = 0 THEN createInterdependentRules
    ELSE createRulesFor(docs[ReadBytes(docs).resources[u]])

\* Whether the units of a sequence of Results or of logged Fixes never go back.
inUnitOrder(s) == \A i, j \in DOMAIN s : i < j => s[i].unit <= s[j].unit

====
